---- MODULE Spec2Model ----
(***************************************************************************)
(* Big-context processing engine: the job store (chunk_jobs, chunks,       *)
(* messages), the scheduler processChunksInParallel with its workers       *)
(* (processOneChunk), the finalizers attached to a scheduler promise by    *)
(* the start, retry-failed and resume endpoints, and the cancel,           *)
(* retry-failed and resume request handlers.                               *)
(*                                                                         *)
(* One job is modelled (jobs share nothing but the chat's messages; the    *)
(* messages earlier turns left in the chat are an input chosen in Init).   *)
(* Every action is one store operation (or one Remote Client reply)        *)
(* together with the synchronous JavaScript that runs before the next      *)
(* await.  Texts are sequences of integers: chunk i's non-empty model      *)
(* output is <<i + 1>>, the separator "\n\n" is the token SEP.             *)
(***************************************************************************)
EXTENDS Integers, Sequences, FiniteSets, TLC

\* ------------------------------------------------------------------ bounds
MaxChunks == 2        \* a job has 1..MaxChunks chunks
MaxRuns == 2          \* scheduler invocations over the life of the job
MaxCrashes == 1       \* process deaths

\* --------------------------------------------------------- program constants
MAX_CONCURRENCY == 5
MAX_RETRIES == 3

\* ------------------------------------------------------------------- texts
SEP == 0                         \* "\n\n"
NULL == <<-9>>                   \* SQL NULL in a nullable text column
Empty == <<>>                    \* ""
NoOutputStart == <<-1>>          \* "[No output produced — all chunks may have failed]"
NoOutputResume == <<-2>>         \* "[No output — all chunks failed]"
FailedPrefix == <<-3>>           \* "[Big Context Processing Failed]\nError: ..."
PriorText == <<-4>>              \* an assistant reply of an earlier turn of the chat
StitchedText == <<-5>>           \* what the stitch call's model returned
ErrText == <<-6>>                \* an error message without "429" or "rate" in it
RateLimitText == <<-8>>          \* an error message with "429" or "rate" in it

RunIds == 1..MaxRuns
ChunkIdx(n) == 0..(n - 1)

\* Array.prototype.join("\n\n") over a sequence of texts
RECURSIVE Join(_)
Join(texts) ==
    IF Len(texts) = 0 THEN Empty
    ELSE IF Len(texts) = 1 THEN texts[1]
    ELSE texts[1] \o <<SEP>> \o Join(Tail(texts))

\* the elements of a finite set of integers in ascending order
RECURSIVE SortedSeq(_)
SortedSeq(S) ==
    IF S = {} THEN <<>>
    ELSE LET m == CHOOSE x \in S : \A y \in S : x <= y
         IN <<m>> \o SortedSeq(S \ {m})

\* content.startsWith("[Big Context Processing")
StartsWithBigContext(content) == content = FailedPrefix

\* finalOutput || placeholder
OrPlaceholder(text, placeholder) == IF text = Empty THEN placeholder ELSE text

VARIABLES
    job,        \* the chunk_jobs row
    chunks,     \* the chunks rows, by index
    messages,   \* the assistant messages of the job's chat, in insertion order
    runs,       \* the scheduler invocations (closures of processChunksInParallel)
    runCount,   \* scheduler invocations launched so far
    retryReq,   \* the retry-failed handler in progress
    resumeReq,  \* the resume handler in progress
    cancelReq,  \* the cancel handler in progress
    crashes,    \* process deaths so far
    stream,     \* the subscription stream of the job (GET stream) and what it emitted
    call        \* a library function applied outside a job: its arguments and result

vars == <<job, chunks, messages, runs, runCount, retryReq, resumeReq, cancelReq, crashes,
          stream, call>>

NoJobRow ==
    [status |-> "none", totalChunks |-> 0, completedChunks |-> 0,
     stitchedOutput |-> NULL, enableStitchPass |-> FALSE]

NewChunkRow == [status |-> "pending", outputText |-> NULL, error |-> NULL]

NoResult == [status |-> "none", output |-> Empty]

\* a scheduler invocation that has not been launched, or died with its process
NoRun ==
    [kind |-> "none", inputs |-> <<>>, results |-> <<>>, wpc |-> <<>>,
     wout |-> <<>>, attempt |-> <<>>, lastError |-> <<>>, activeCount |-> 0,
     nextIndex |-> 0,
     cancelled |-> FALSE, snUnread |-> 0, snTrue |-> 0, snFalse |-> 0,
     fpc |-> "none", finalOutput |-> Empty, finalStatus |-> "none",
     wantStitch |-> FALSE, hasAssistant |-> FALSE]

\* a scheduler invocation whose promise chain has run to its end and that has no
\* worker and no startNext call left: nothing of its closure is read again
FinishedRun == [NoRun EXCEPT !.kind = "finished", !.fpc = "done"]

Quiescent(run) ==
    /\ run.snUnread = 0 /\ run.snTrue = 0 /\ run.snFalse = 0
    /\ \A p \in DOMAIN run.wpc : run.wpc[p] \in {"idle", "done"}

\* the last step of a promise chain
Finish(run) == IF Quiescent(run) THEN FinishedRun ELSE [run EXCEPT !.fpc = "done"]

\* a dispatcher step of an invocation whose promise chain has already ended
Settle(run) == IF run.fpc = "done" /\ Quiescent(run) THEN FinishedRun ELSE run

NoReq == [pc |-> "idle", completedChunks |-> 0, targets |-> {}, processing |-> {},
          finalOutput |-> Empty, finalStatus |-> "none", hasAssistant |-> FALSE]

\* no subscription has been opened
NoStream == [pc |-> "none"]

\* no library function is being applied
NoCall == [fn |-> "none"]

Init ==
    /\ stream = NoStream
    /\ call = NoCall
    /\ job = NoJobRow
    /\ chunks = <<>>
    /\ messages \in {<<>>, <<[content |-> PriorText, by |-> "prior"]>>}
    /\ runs = [r \in RunIds |-> NoRun]
    /\ runCount = 0
    /\ retryReq = NoReq
    /\ resumeReq = NoReq
    /\ cancelReq = "idle"
    /\ crashes = 0

\* --------------------------------------------------------------- scheduler
\* processChunksInParallel(chunkJobId, chunkInputs, ...): the closure's state and
\* its first, synchronous call of startNext, which issues the job-status read
\* when there is a chunk to launch.
NewRun(kind, inputs) ==
    [NoRun EXCEPT
        !.kind = kind,
        !.inputs = inputs,
        !.results = [p \in 1..Len(inputs) |-> NoResult],
        !.wpc = [p \in 1..Len(inputs) |-> "idle"],
        !.wout = [p \in 1..Len(inputs) |-> Empty],
        !.attempt = [p \in 1..Len(inputs) |-> 0],
        !.lastError = [p \in 1..Len(inputs) |-> NULL],
        !.snUnread = IF Len(inputs) > 0 THEN 1 ELSE 0]

Launch(kind, inputs) ==
    /\ runCount < MaxRuns
    /\ runCount' = runCount + 1
    /\ runs' = [runs EXCEPT ![runCount + 1] = NewRun(kind, inputs)]

\* checkDone(): resolve the promise once every input has a recorded result
CheckDone(run) ==
    IF run.fpc = "none" /\ \A p \in 1..Len(run.inputs) : run.results[p].status # "none"
    THEN [run EXCEPT !.fpc = "then"]
    ELSE run

\* start endpoint: insert the job row (processing) and its chunk rows (pending),
\* then launch the scheduler on all n chunks
StartJob(n, stitch) ==
    /\ job.status = "none"
    /\ job' = [status |-> "processing", totalChunks |-> n, completedChunks |-> 0,
               stitchedOutput |-> NULL, enableStitchPass |-> stitch]
    /\ chunks' = [i \in ChunkIdx(n) |-> NewChunkRow]
    /\ Launch("start", SortedSeq(ChunkIdx(n)))
    /\ UNCHANGED <<call, stream, messages, retryReq, resumeReq, cancelReq, crashes>>

\* start on a text that splits into at most MaxChunks chunks
Start == \E n \in 1..MaxChunks, stitch \in BOOLEAN : StartJob(n, stitch)

\* the least chunk count at which two scheduler invocations together exceed the cap
OverlapChunks == (MAX_CONCURRENCY \div 2) + 1

\* start on a text that splits into OverlapChunks chunks, without the stitch pass
StartOverlap == StartJob(OverlapChunks, FALSE)

\* isJobCancelled: the store executes the status read of one awaiting startNext
IsJobCancelled(r) ==
    /\ runs[r].snUnread > 0
    /\ runs' = [runs EXCEPT ![r] =
            IF job.status = "cancelled"
            THEN [@ EXCEPT !.snUnread = @ - 1, !.snTrue = @ + 1]
            ELSE [@ EXCEPT !.snUnread = @ - 1, !.snFalse = @ + 1]]
    /\ UNCHANGED <<call, stream, job, chunks, messages, runCount, retryReq, resumeReq, cancelReq, crashes>>

\* the while loop of startNext: launch chunks while activeCount < MAX_CONCURRENCY
RECURSIVE LaunchLoop(_)
LaunchLoop(run) ==
    IF run.activeCount < MAX_CONCURRENCY /\ run.nextIndex < Len(run.inputs) /\ ~run.cancelled
    THEN LaunchLoop([run EXCEPT !.wpc[run.nextIndex + 1] = "launched",
                                !.nextIndex = @ + 1,
                                !.activeCount = @ + 1])
    ELSE run

\* results[i] = {status: "failed", error: "Cancelled by user"} for i >= nextIndex
MarkCancelled(run) ==
    [run EXCEPT !.results = [p \in 1..Len(run.inputs) |->
        IF p > run.nextIndex /\ run.results[p].status = "none"
        THEN [status |-> "failed", output |-> Empty]
        ELSE run.results[p]]]

\* startNext without the return on cancellation
StartNextResumeUnchecked(r, value) ==
    /\ IF value THEN runs[r].snTrue > 0 ELSE runs[r].snFalse > 0
    /\ LET taken == IF value THEN [runs[r] EXCEPT !.snTrue = @ - 1]
                             ELSE [runs[r] EXCEPT !.snFalse = @ - 1]
       IN runs' = [runs EXCEPT ![r] = Settle(LaunchLoop(taken))]
    /\ UNCHANGED <<call, stream, job, chunks, messages, runCount, retryReq, resumeReq, cancelReq, crashes>>

\* startNext resumes after its await with the value read
StartNextResume(r, value) ==
    /\ IF value THEN runs[r].snTrue > 0 ELSE runs[r].snFalse > 0
    /\ LET taken == IF value THEN [runs[r] EXCEPT !.snTrue = @ - 1]
                             ELSE [runs[r] EXCEPT !.snFalse = @ - 1]
           set == [taken EXCEPT !.cancelled = value]
       IN runs' = [runs EXCEPT ![r] =
                Settle(IF value THEN CheckDone(MarkCancelled(set)) ELSE LaunchLoop(set))]
    /\ UNCHANGED <<call, stream, job, chunks, messages, runCount, retryReq, resumeReq, cancelReq, crashes>>

\* startNext up to its first await, called from a worker's then-handler
StartNextCall(run) ==
    IF ~run.cancelled /\ run.nextIndex < Len(run.inputs)
    THEN [run EXCEPT !.snUnread = @ + 1]
    ELSE LaunchLoop(run)

\* ------------------------------------------------------------------ worker
Others == <<call, stream, job, messages, runCount, retryReq, resumeReq, cancelReq, crashes>>

\* processOneChunk after its select of the chunk row: mark the row processing,
\* build the messages and call the Remote Client
WorkerMarkProcessing(r, p) ==
    /\ p \in 1..Len(runs[r].inputs)
    /\ runs[r].wpc[p] = "launched"
    /\ chunks' = [chunks EXCEPT ![runs[r].inputs[p]].status = "processing"]
    /\ runs' = [runs EXCEPT ![r].wpc[p] = "calling"]
    /\ UNCHANGED Others

\* the chunk row update after a reply with the status alone
WriteCompletedStatusOnly(r, p, out) ==
    /\ chunks' = [chunks EXCEPT ![runs[r].inputs[p]].status = "completed"]
    /\ runs' = [runs EXCEPT ![r].wpc[p] = "wroteOk", ![r].wout[p] = out,
                            ![r].attempt[p] = 0, ![r].lastError[p] = NULL]

\* the chunk row update after a reply: outputText and status completed
WriteCompleted(r, p, out) ==
    /\ chunks' = [chunks EXCEPT ![runs[r].inputs[p]] =
            [@ EXCEPT !.status = "completed", !.outputText = out]]
    /\ runs' = [runs EXCEPT ![r].wpc[p] = "wroteOk", ![r].wout[p] = out,
                            ![r].attempt[p] = 0, ![r].lastError[p] = NULL]

\* the Remote Client returns content
WorkerSucceed(r, p) ==
    /\ p \in 1..Len(runs[r].inputs)
    /\ runs[r].wpc[p] = "calling"
    /\ WriteCompleted(r, p, <<runs[r].inputs[p] + 1>>)
    /\ UNCHANGED Others

\* the Remote Client returns no content: response.choices[0]?.message?.content ?? ""
WorkerSucceedEmpty(r, p) ==
    /\ p \in 1..Len(runs[r].inputs)
    /\ runs[r].wpc[p] = "calling"
    /\ WriteCompleted(r, p, Empty)
    /\ UNCHANGED Others

\* lastError.message.includes("429") || lastError.message.includes("rate")
isRateLimit(error) == error = RateLimitText

\* the catch of an attempt that retries after any error
RetryAfterAnyError(error, attempt) == attempt < MAX_RETRIES - 1

\* isRateLimit && attempt < MAX_RETRIES - 1: back off and call again
RetryAfter(error, attempt) == isRateLimit(error) /\ attempt < MAX_RETRIES - 1

\* the Remote Client fails with a rate-limit error and attempts remain: back off
\* and call again
WorkerRateLimited(r, p) ==
    /\ p \in 1..Len(runs[r].inputs)
    /\ runs[r].wpc[p] = "calling"
    /\ RetryAfter(RateLimitText, runs[r].attempt[p])
    /\ runs' = [runs EXCEPT ![r].attempt[p] = @ + 1, ![r].lastError[p] = RateLimitText]
    /\ UNCHANGED <<call, stream, chunks, job, messages, runCount, retryReq, resumeReq, cancelReq, crashes>>

\* the Remote Client fails for good (any other error, or a rate-limit error on
\* the last attempt): write the chunk row (failed, error)
WorkerFail(r, p) ==
    /\ p \in 1..Len(runs[r].inputs)
    /\ runs[r].wpc[p] = "calling"
    /\ chunks' = [chunks EXCEPT ![runs[r].inputs[p]] =
            [@ EXCEPT !.status = "failed", !.error = ErrText]]
    /\ runs' = [runs EXCEPT ![r].wpc[p] = "wroteFail", ![r].attempt[p] = 0,
                            ![r].lastError[p] = NULL]
    /\ UNCHANGED Others

\* the catch block of an attempt: the Remote Client threw error.  A rate-limit
\* error with attempts left: back off and call again; otherwise leave the loop
\* and write the chunk row (failed, error: lastError.message)
WorkerCatch(r, p, error) ==
    /\ p \in 1..Len(runs[r].inputs)
    /\ runs[r].wpc[p] = "calling"
    /\ IF RetryAfter(error, runs[r].attempt[p])
       THEN /\ runs' = [runs EXCEPT ![r].attempt[p] = @ + 1, ![r].lastError[p] = error]
            /\ UNCHANGED chunks
       ELSE /\ chunks' = [chunks EXCEPT ![runs[r].inputs[p]] =
                    [@ EXCEPT !.status = "failed", !.error = error]]
            /\ runs' = [runs EXCEPT ![r].wpc[p] = "wroteFail", ![r].attempt[p] = 0,
                                    ![r].lastError[p] = NULL]
    /\ UNCHANGED Others

\* completedChunks = completedChunks + 1 on the job row, then the worker's promise
\* resolves and the scheduler's then-handler records the result, decrements
\* activeCount and calls checkDone() and startNext()
WorkerIncrement(r, p) ==
    /\ p \in 1..Len(runs[r].inputs)
    /\ runs[r].wpc[p] \in {"wroteOk", "wroteFail"}
    /\ job' = [job EXCEPT !.completedChunks = @ + 1]
    /\ LET res == IF runs[r].wpc[p] = "wroteOk"
                  THEN [status |-> "completed", output |-> runs[r].wout[p]]
                  ELSE [status |-> "failed", output |-> Empty]
           recorded == [runs[r] EXCEPT !.wpc[p] = "done",
                                       !.wout[p] = Empty,
                                       !.results[p] = res,
                                       !.activeCount = @ - 1]
       IN runs' = [runs EXCEPT ![r] = Settle(StartNextCall(CheckDone(recorded)))]
    /\ UNCHANGED <<call, stream, chunks, messages, runCount, retryReq, resumeReq, cancelReq, crashes>>

\* --------------------------------------------------------------- finalizers
\* rows of the chunks table in index order
ChunkRows == [k \in 1..job.totalChunks |-> chunks[k - 1]]

\* JavaScript truthiness of a nullable text
Truthy(text) == text # NULL /\ text # Empty

IsSuccessful(c) == c.status = "completed" /\ Truthy(c.outputText)
IsFailed(c) == c.status = "failed"
IsSettled(c) == c.status = "completed" \/ c.status = "failed"
IsResultCompleted(res) == res.status = "completed"

RowOutputs(rows) == [k \in 1..Len(rows) |-> rows[k].outputText]
ResultOutputs(results) == [k \in 1..Len(results) |-> results[k].output]

\* .filter(c => c.status === "completed" && c.outputText).sort(by index).map(outputText)
SuccessfulOutputs == RowOutputs(SelectSeq(ChunkRows, IsSuccessful))

\* failedCount === allChunks.length ? "failed" : "completed"
StatusFromRows ==
    IF Len(SelectSeq(ChunkRows, IsFailed)) = Len(ChunkRows) THEN "failed" ELSE "completed"

\* results.filter(r => r.status === "completed").sort(by index).map(r => r.output)
OrderedOutputs(run) == ResultOutputs(SelectSeq(run.results, IsResultCompleted))

StatusFromResults(run) ==
    IF \A p \in 1..Len(run.results) : run.results[p].status = "failed"
    THEN "failed" ELSE "completed"

\* the stitch decision without the job's flag
WantStitchUnflagged(enableStitchPass, outputs) == Len(outputs) > 1

\* enableStitchPass && orderedOutputs.length > 1
WantStitch(enableStitchPass, outputs) == enableStitchPass /\ Len(outputs) > 1

\* the then-callback of the scheduler's promise starts.  start: the outputs come
\* from the in-memory results.  resume and retry-failed: the chunk rows are read
\* back from the store; retry-failed finalizes only if every row is completed or
\* failed.
FinBegin(r) ==
    /\ runs[r].fpc = "then"
    /\ runs' = [runs EXCEPT ![r] =
        CASE runs[r].kind = "start" ->
                [@ EXCEPT !.fpc = "ready",
                          !.finalOutput = Join(OrderedOutputs(runs[r])),
                          !.finalStatus = StatusFromResults(runs[r]),
                          !.wantStitch = WantStitch(job.enableStitchPass,
                                                    OrderedOutputs(runs[r]))]
          [] runs[r].kind = "resume" ->
                [@ EXCEPT !.fpc = "ready",
                          !.finalOutput = Join(SuccessfulOutputs),
                          !.finalStatus = StatusFromRows,
                          !.wantStitch = WantStitch(job.enableStitchPass,
                                                    SuccessfulOutputs)]
          [] OTHER ->
                IF \A i \in DOMAIN chunks : IsSettled(chunks[i])
                THEN [@ EXCEPT !.fpc = "ready",
                               !.finalOutput = Join(SuccessfulOutputs),
                               !.finalStatus = StatusFromRows]
                ELSE Finish(runs[r])]
    /\ UNCHANGED <<call, stream, job, chunks, messages, runCount, retryReq, resumeReq, cancelReq, crashes>>

\* the stitch pass is wanted: set status "stitching"
FinStitchingWrite(r) ==
    /\ runs[r].fpc = "ready"
    /\ runs[r].wantStitch
    /\ job' = [job EXCEPT !.status = "stitching"]
    /\ runs' = [runs EXCEPT ![r].fpc = "stitching"]
    /\ UNCHANGED <<call, stream, chunks, messages, runCount, retryReq, resumeReq, cancelReq, crashes>>

\* stitchResults returns: the outputs joined (the pass is skipped as too large),
\* the model's smoothed text, or the Remote Client throws
FinStitch(r) ==
    /\ runs[r].fpc = "stitching"
    /\ \E outcome \in {"concat", "remote", "throw"} :
        runs' = [runs EXCEPT ![r] =
            CASE outcome = "concat" -> [@ EXCEPT !.fpc = "stitched"]
              [] outcome = "remote" -> [@ EXCEPT !.fpc = "stitched",
                                                 !.finalOutput = StitchedText]
              [] OTHER -> [@ EXCEPT !.fpc = "catch"]]
    /\ UNCHANGED <<call, stream, job, chunks, messages, runCount, retryReq, resumeReq, cancelReq, crashes>>

\* the terminal write split in two updates, status first
FinTerminalWriteStatusFirst(r) ==
    /\ \/ runs[r].fpc = "ready" /\ ~runs[r].wantStitch
       \/ runs[r].fpc = "stitched"
    /\ job' = [job EXCEPT !.status = runs[r].finalStatus]
    /\ runs' = [runs EXCEPT ![r] = IF runs[r].kind = "retry" THEN Finish(runs[r])
                                   ELSE [@ EXCEPT !.fpc = "written"]]
    /\ UNCHANGED <<call, stream, chunks, messages, runCount, retryReq, resumeReq, cancelReq, crashes>>

\* the terminal write: status and stitchedOutput in one update
FinTerminalWrite(r) ==
    /\ \/ runs[r].fpc = "ready" /\ ~runs[r].wantStitch
       \/ runs[r].fpc = "stitched"
    /\ job' = [job EXCEPT !.status = runs[r].finalStatus,
                          !.stitchedOutput = runs[r].finalOutput]
    /\ runs' = [runs EXCEPT ![r] = IF runs[r].kind = "retry" THEN Finish(runs[r])
                                   ELSE [@ EXCEPT !.fpc = "written"]]
    /\ UNCHANGED <<call, stream, chunks, messages, runCount, retryReq, resumeReq, cancelReq, crashes>>

\* existingMsgs.some(m => m.role === "assistant" && !m.content.startsWith(...))
HasAssistantResponse == \E k \in 1..Len(messages) : ~StartsWithBigContext(messages[k].content)

\* resume's finalizer reads the chat's messages
FinCheckMessages(r) ==
    /\ runs[r].fpc = "written"
    /\ runs[r].kind = "resume"
    /\ runs' = [runs EXCEPT ![r] = IF HasAssistantResponse THEN Finish(runs[r])
                                   ELSE [@ EXCEPT !.fpc = "checked"]]
    /\ UNCHANGED <<call, stream, job, chunks, messages, runCount, retryReq, resumeReq, cancelReq, crashes>>

\* insert the assistant message
FinInsertMessage(r) ==
    /\ \/ runs[r].fpc = "written" /\ runs[r].kind = "start"
       \/ runs[r].fpc = "checked"
    /\ messages' = Append(messages,
            [content |-> OrPlaceholder(runs[r].finalOutput,
                            IF runs[r].kind = "start" THEN NoOutputStart ELSE NoOutputResume),
             by |-> runs[r].kind])
    /\ runs' = [runs EXCEPT ![r] = Finish(runs[r])]
    /\ UNCHANGED <<call, stream, job, chunks, runCount, retryReq, resumeReq, cancelReq, crashes>>

\* the catch of the promise chain: status failed
FinCatch(r) ==
    /\ runs[r].fpc = "catch"
    /\ job' = [job EXCEPT !.status = "failed"]
    /\ runs' = [runs EXCEPT ![r] = IF runs[r].kind = "start" THEN [@ EXCEPT !.fpc = "catchMsg"]
                                   ELSE Finish(runs[r])]
    /\ UNCHANGED <<call, stream, chunks, messages, runCount, retryReq, resumeReq, cancelReq, crashes>>

\* start's catch inserts the failure message
FinCatchMessage(r) ==
    /\ runs[r].fpc = "catchMsg"
    /\ messages' = Append(messages, [content |-> FailedPrefix, by |-> "start"])
    /\ runs' = [runs EXCEPT ![r] = Finish(runs[r])]
    /\ UNCHANGED <<call, stream, job, chunks, runCount, retryReq, resumeReq, cancelReq, crashes>>

\* ------------------------------------------------------- request handlers
\* scheduler invocations launched or still to be launched by a handler in progress
Reserved ==
    runCount + (IF retryReq.pc # "idle" THEN 1 ELSE 0)
             + (IF resumeReq.pc # "idle" THEN 1 ELSE 0)

\* requests are served one at a time: no other handler is between two awaits
NoHandler == retryReq.pc = "idle" /\ resumeReq.pc = "idle" /\ cancelReq = "idle"

StatusSet(S) == {i \in DOMAIN chunks : chunks[i].status \in S}

\* cancel: UPDATE chunk_jobs SET status = 'cancelled' ... RETURNING
CancelJob ==
    /\ NoHandler
    /\ job.status # "none"
    /\ job' = [job EXCEPT !.status = "cancelled"]
    /\ cancelReq' = "chunks"
    /\ UNCHANGED <<call, stream, chunks, messages, runs, runCount, retryReq, resumeReq, crashes>>

\* cancel's chunk update without its status condition
CancelAllChunks ==
    /\ cancelReq = "chunks"
    /\ chunks' = [i \in DOMAIN chunks |-> [chunks[i] EXCEPT !.status = "cancelled"]]
    /\ cancelReq' = "idle"
    /\ UNCHANGED <<call, stream, job, messages, runs, runCount, retryReq, resumeReq, crashes>>

\* cancel: UPDATE chunks SET status = 'cancelled' WHERE status IN (pending, processing)
CancelChunks ==
    /\ cancelReq = "chunks"
    /\ chunks' = [i \in DOMAIN chunks |->
            IF chunks[i].status \in {"pending", "processing"}
            THEN [chunks[i] EXCEPT !.status = "cancelled"]
            ELSE chunks[i]]
    /\ cancelReq' = "idle"
    /\ UNCHANGED <<call, stream, job, messages, runs, runCount, retryReq, resumeReq, crashes>>

\* retry-failed: select the job row
RetryReadJob ==
    /\ NoHandler
    /\ job.status # "none"
    /\ retryReq' = [NoReq EXCEPT !.pc = "job", !.completedChunks = job.completedChunks]
    /\ UNCHANGED <<call, stream, job, chunks, messages, runs, runCount, resumeReq, cancelReq, crashes>>

\* retry-failed's select of the failed chunks without the return on none
RetryReadFailedNoReturn ==
    /\ retryReq.pc = "job"
    /\ retryReq' = [retryReq EXCEPT !.pc = "reset", !.targets = StatusSet({"failed"})]
    /\ UNCHANGED <<call, stream, job, chunks, messages, runs, runCount, resumeReq, cancelReq, crashes>>

\* retry-failed: select the failed chunks; none: "No failed chunks to retry"
RetryReadFailed ==
    /\ retryReq.pc = "job"
    /\ retryReq' = IF StatusSet({"failed"}) = {} THEN NoReq
                   ELSE [retryReq EXCEPT !.pc = "reset", !.targets = StatusSet({"failed"})]
    /\ UNCHANGED <<call, stream, job, chunks, messages, runs, runCount, resumeReq, cancelReq, crashes>>

\* retry-failed: reset the selected rows to pending, error and outputText null
RetryReset ==
    /\ retryReq.pc = "reset"
    /\ chunks' = [i \in DOMAIN chunks |->
            IF i \in retryReq.targets THEN NewChunkRow ELSE chunks[i]]
    /\ retryReq' = [retryReq EXCEPT !.pc = "update"]
    /\ UNCHANGED <<call, stream, job, messages, runs, runCount, resumeReq, cancelReq, crashes>>

\* retry-failed's job update with the counter set to zero instead of decremented
RetryUpdateJobZero ==
    /\ retryReq.pc = "update"
    /\ job' = [job EXCEPT !.status = "processing", !.completedChunks = 0]
    /\ Launch("retry", SortedSeq(retryReq.targets))
    /\ retryReq' = NoReq
    /\ UNCHANGED <<call, stream, chunks, messages, resumeReq, cancelReq, crashes>>

\* retry-failed: status processing, completedChunks = job.completedChunks -
\* failedChunks.length (from the rows read earlier), and launch the scheduler on
\* the failed chunks
RetryUpdateJob ==
    /\ retryReq.pc = "update"
    /\ job' = [job EXCEPT !.status = "processing",
                   !.completedChunks = retryReq.completedChunks - Cardinality(retryReq.targets)]
    /\ Launch("retry", SortedSeq(retryReq.targets))
    /\ retryReq' = NoReq
    /\ UNCHANGED <<call, stream, chunks, messages, resumeReq, cancelReq, crashes>>

\* resume's job select without the status guard
ResumeReadJobUnguarded ==
    /\ NoHandler
    /\ job.status # "none"
    /\ resumeReq' = [NoReq EXCEPT !.pc = "job"]
    /\ UNCHANGED <<call, stream, job, chunks, messages, runs, runCount, retryReq, cancelReq, crashes>>

\* resume: select the job row; a job that is not pending, processing or stitching
\* is answered "no resume needed"
ResumeReadJob ==
    /\ NoHandler
    /\ job.status # "none"
    /\ resumeReq' = IF job.status \in {"processing", "stitching", "pending"}
                    THEN [NoReq EXCEPT !.pc = "job"]
                    ELSE NoReq
    /\ UNCHANGED <<call, stream, job, chunks, messages, runs, runCount, retryReq, cancelReq, crashes>>

\* resume: select the chunks in processing or pending; when there is none, read
\* all chunk rows for the finalize-only branch
ResumeReadStuck ==
    /\ resumeReq.pc = "job"
    /\ resumeReq' =
        IF StatusSet({"processing", "pending"}) = {}
        THEN [resumeReq EXCEPT !.pc = "finalize",
                               !.finalOutput = Join(SuccessfulOutputs),
                               !.finalStatus = StatusFromRows]
        ELSE [resumeReq EXCEPT !.pc = "reset",
                               !.targets = StatusSet({"processing", "pending"}),
                               !.processing = StatusSet({"processing"})]
    /\ UNCHANGED <<call, stream, job, chunks, messages, runs, runCount, retryReq, cancelReq, crashes>>

\* resume, finalize-only: the terminal write
ResumeFinWrite ==
    /\ resumeReq.pc = "finalize"
    /\ job' = [job EXCEPT !.status = resumeReq.finalStatus,
                          !.stitchedOutput = resumeReq.finalOutput]
    /\ resumeReq' = [resumeReq EXCEPT !.pc = "finWritten"]
    /\ UNCHANGED <<call, stream, chunks, messages, runs, runCount, retryReq, cancelReq, crashes>>

\* resume, finalize-only: read the chat's messages
ResumeFinCheck ==
    /\ resumeReq.pc = "finWritten"
    /\ resumeReq' = IF HasAssistantResponse THEN NoReq
                    ELSE [resumeReq EXCEPT !.pc = "finChecked"]
    /\ UNCHANGED <<call, stream, job, chunks, messages, runs, runCount, retryReq, cancelReq, crashes>>

\* resume, finalize-only: insert the assistant message
ResumeFinInsert ==
    /\ resumeReq.pc = "finChecked"
    /\ messages' = Append(messages,
            [content |-> OrPlaceholder(resumeReq.finalOutput, NoOutputResume),
             by |-> "resume"])
    /\ resumeReq' = NoReq
    /\ UNCHANGED <<call, stream, job, chunks, runs, runCount, retryReq, cancelReq, crashes>>

\* resume: reset the rows that were read as processing to pending, error null
ResumeReset ==
    /\ resumeReq.pc = "reset"
    /\ chunks' = [i \in DOMAIN chunks |->
            IF i \in resumeReq.processing
            THEN [chunks[i] EXCEPT !.status = "pending", !.error = NULL]
            ELSE chunks[i]]
    /\ resumeReq' = [resumeReq EXCEPT !.pc = "recount"]
    /\ UNCHANGED <<call, stream, job, messages, runs, runCount, retryReq, cancelReq, crashes>>

\* resume: read all chunk rows and count the completed and failed ones
ResumeRecount ==
    /\ resumeReq.pc = "recount"
    /\ resumeReq' = [resumeReq EXCEPT !.pc = "update",
                        !.completedChunks = Cardinality(StatusSet({"completed", "failed"}))]
    /\ UNCHANGED <<call, stream, job, chunks, messages, runs, runCount, retryReq, cancelReq, crashes>>

\* resume: status processing, completedChunks = the count read, and launch the
\* scheduler on the chunks read as processing or pending
ResumeUpdateJob ==
    /\ resumeReq.pc = "update"
    /\ job' = [job EXCEPT !.status = "processing",
                          !.completedChunks = resumeReq.completedChunks]
    /\ Launch("resume", SortedSeq(resumeReq.targets))
    /\ resumeReq' = NoReq
    /\ UNCHANGED <<call, stream, chunks, messages, retryReq, cancelReq, crashes>>

\* the server process dies (redeploy): every scheduler invocation and request
\* handler in memory is gone, the store stays
Crash ==
    /\ job.status # "none"
    /\ crashes < MaxCrashes
    /\ crashes' = crashes + 1
    /\ runs' = [r \in RunIds |-> NoRun]
    /\ retryReq' = NoReq
    /\ resumeReq' = NoReq
    /\ cancelReq' = "idle"
    /\ stream' = IF stream.pc = "none" THEN stream ELSE [stream EXCEPT !.pc = "closed"]
    /\ UNCHANGED <<call, job, chunks, messages, runCount>>

\* one scheduler invocation: the dispatcher, its workers and its finalizer
Scheduler ==
    \/ \E r \in RunIds : IsJobCancelled(r)
    \/ \E r \in RunIds, v \in BOOLEAN : StartNextResume(r, v)
    \/ \E r \in RunIds : \E p \in DOMAIN runs[r].inputs : WorkerMarkProcessing(r, p)
    \/ \E r \in RunIds : \E p \in DOMAIN runs[r].inputs : WorkerSucceed(r, p)
    \/ \E r \in RunIds : \E p \in DOMAIN runs[r].inputs : WorkerFail(r, p)
    \/ \E r \in RunIds : \E p \in DOMAIN runs[r].inputs : WorkerIncrement(r, p)
    \/ \E r \in RunIds : FinBegin(r)
    \/ \E r \in RunIds : FinStitchingWrite(r)
    \/ \E r \in RunIds : FinStitch(r)
    \/ \E r \in RunIds : FinTerminalWrite(r)
    \/ \E r \in RunIds : FinInsertMessage(r)
    \/ \E r \in RunIds : FinCatch(r)
    \/ \E r \in RunIds : FinCatchMessage(r)

Cancel == CancelJob \/ CancelChunks

\* retry-failed requested while a scheduler invocation can still be launched
RetryRequest == Reserved < MaxRuns /\ RetryReadJob

RetryFailed == RetryRequest \/ RetryReadFailed \/ RetryReset \/ RetryUpdateJob

\* resume requested while a scheduler invocation can still be launched
ResumeRequest == Reserved < MaxRuns /\ ResumeReadJob

Resume ==
    \/ ResumeRequest
    \/ ResumeReadStuck
    \/ ResumeFinWrite
    \/ ResumeFinCheck
    \/ ResumeFinInsert
    \/ ResumeReset
    \/ ResumeRecount
    \/ ResumeUpdateJob
    \/ \E r \in RunIds : FinCheckMessages(r)

\* the engine under start, cancel, retry-failed, resume and a process death, with
\* a Remote Client that answers every call with a non-empty text or an error
Next ==
    \/ Start
    \/ Scheduler
    \/ Cancel
    \/ RetryFailed
    \/ Resume
    \/ Crash

Spec == Init /\ [][Next]_vars

\* a job of OverlapChunks chunks whose Remote Client calls all succeed, resumed
\* while its scheduler is alive
NextOverlap ==
    \/ StartOverlap
    \/ \E r \in RunIds : IsJobCancelled(r)
    \/ \E r \in RunIds : StartNextResume(r, FALSE)
    \/ \E r \in RunIds : \E p \in DOMAIN runs[r].inputs : WorkerMarkProcessing(r, p)
    \/ \E r \in RunIds : \E p \in DOMAIN runs[r].inputs : WorkerSucceed(r, p)
    \/ \E r \in RunIds : \E p \in DOMAIN runs[r].inputs : WorkerIncrement(r, p)
    \/ \E r \in RunIds : FinBegin(r)
    \/ \E r \in RunIds : FinTerminalWrite(r)
    \/ \E r \in RunIds : FinInsertMessage(r)
    \/ Resume

SpecOverlap == Init /\ [][NextOverlap]_vars

\* a job of one chunk more than the scheduler runs at once, run by one scheduler
\* invocation and cancelled at any moment
StartOverCap == StartJob(MAX_CONCURRENCY + 1, FALSE)

NextOverCap ==
    \/ StartOverCap
    \/ \E r \in RunIds : IsJobCancelled(r)
    \/ \E r \in RunIds, v \in BOOLEAN : StartNextResume(r, v)
    \/ \E r \in RunIds : \E p \in DOMAIN runs[r].inputs : WorkerMarkProcessing(r, p)
    \/ \E r \in RunIds : \E p \in DOMAIN runs[r].inputs : WorkerSucceed(r, p)
    \/ \E r \in RunIds : \E p \in DOMAIN runs[r].inputs : WorkerIncrement(r, p)
    \/ \E r \in RunIds : FinBegin(r)
    \/ \E r \in RunIds : FinTerminalWrite(r)
    \/ \E r \in RunIds : FinInsertMessage(r)
    \/ Cancel

SpecOverCap == Init /\ [][NextOverCap]_vars

\* retry-failed pressed on a job that no scheduler invocation is running any more,
\* while a scheduler invocation can still be launched if one is needed
RetryFinishedJob ==
    /\ \A r \in RunIds : runs[r].kind \in {"none", "finished"}
    /\ runCount < MaxRuns \/ StatusSet({"failed"}) = {}
    /\ RetryReadJob

\* a job whose Remote Client calls answer with a text, with no content or with an
\* error, retried once it has finished; requests and scheduler never overlap
NextRetryFinished ==
    \/ Start
    \/ \E r \in RunIds : IsJobCancelled(r)
    \/ \E r \in RunIds : StartNextResume(r, FALSE)
    \/ \E r \in RunIds : \E p \in DOMAIN runs[r].inputs : WorkerMarkProcessing(r, p)
    \/ \E r \in RunIds : \E p \in DOMAIN runs[r].inputs : WorkerSucceed(r, p)
    \/ \E r \in RunIds : \E p \in DOMAIN runs[r].inputs : WorkerSucceedEmpty(r, p)
    \/ \E r \in RunIds : \E p \in DOMAIN runs[r].inputs : WorkerFail(r, p)
    \/ \E r \in RunIds : \E p \in DOMAIN runs[r].inputs : WorkerIncrement(r, p)
    \/ \E r \in RunIds : FinBegin(r)
    \/ \E r \in RunIds : FinStitchingWrite(r)
    \/ \E r \in RunIds : FinStitch(r)
    \/ \E r \in RunIds : FinTerminalWrite(r)
    \/ \E r \in RunIds : FinInsertMessage(r)
    \/ \E r \in RunIds : FinCatch(r)
    \/ \E r \in RunIds : FinCatchMessage(r)
    \/ RetryFinishedJob
    \/ RetryReadFailed
    \/ RetryReset
    \/ RetryUpdateJob

SpecRetryFinished == Init /\ [][NextRetryFinished]_vars

\* cancel pressed on a job that no scheduler invocation is running any more
CancelFinishedJob ==
    /\ \A r \in RunIds : runs[r].kind \in {"none", "finished"}
    /\ CancelJob

\* a job run to its end by one scheduler invocation and cancelled afterwards
NextCancelFinished ==
    \/ Start
    \/ \E r \in RunIds : IsJobCancelled(r)
    \/ \E r \in RunIds : StartNextResume(r, FALSE)
    \/ \E r \in RunIds : \E p \in DOMAIN runs[r].inputs : WorkerMarkProcessing(r, p)
    \/ \E r \in RunIds : \E p \in DOMAIN runs[r].inputs : WorkerSucceed(r, p)
    \/ \E r \in RunIds : \E p \in DOMAIN runs[r].inputs : WorkerFail(r, p)
    \/ \E r \in RunIds : \E p \in DOMAIN runs[r].inputs : WorkerIncrement(r, p)
    \/ \E r \in RunIds : FinBegin(r)
    \/ \E r \in RunIds : FinStitchingWrite(r)
    \/ \E r \in RunIds : FinStitch(r)
    \/ \E r \in RunIds : FinTerminalWrite(r)
    \/ \E r \in RunIds : FinInsertMessage(r)
    \/ \E r \in RunIds : FinCatch(r)
    \/ \E r \in RunIds : FinCatchMessage(r)
    \/ CancelFinishedJob
    \/ CancelChunks

SpecCancelFinished == Init /\ [][NextCancelFinished]_vars

\* the smallest job with two outputs to stitch and one failed chunk to retry
NoticeChunks == 3

\* start on a text that splits into NoticeChunks chunks, with the stitch pass
StartStitched == StartJob(NoticeChunks, TRUE)

\* resume requested for a job that no scheduler invocation is running (its process
\* died or its scheduler ended), while a scheduler invocation can still be
\* launched if one is needed
ResumeDeadJob ==
    /\ \A r \in RunIds : runs[r].kind \in {"none", "finished"}
    /\ runCount < MaxRuns \/ StatusSet({"processing", "pending"}) = {}
    /\ ResumeReadJob

\* a stitched job whose requests never overlap a scheduler invocation: retry-failed
\* after the job's end, a process death, resume on the dead job
NextDeadJob ==
    \/ StartStitched
    \/ \E r \in RunIds : IsJobCancelled(r)
    \/ \E r \in RunIds : StartNextResume(r, FALSE)
    \/ \E r \in RunIds : \E p \in DOMAIN runs[r].inputs : WorkerMarkProcessing(r, p)
    \/ \E r \in RunIds : \E p \in DOMAIN runs[r].inputs : WorkerSucceed(r, p)
    \/ \E r \in RunIds : \E p \in DOMAIN runs[r].inputs : WorkerFail(r, p)
    \/ \E r \in RunIds : \E p \in DOMAIN runs[r].inputs : WorkerIncrement(r, p)
    \/ \E r \in RunIds : FinBegin(r)
    \/ \E r \in RunIds : FinStitchingWrite(r)
    \/ \E r \in RunIds : FinStitch(r)
    \/ \E r \in RunIds : FinTerminalWrite(r)
    \/ \E r \in RunIds : FinCheckMessages(r)
    \/ \E r \in RunIds : FinInsertMessage(r)
    \/ \E r \in RunIds : FinCatch(r)
    \/ \E r \in RunIds : FinCatchMessage(r)
    \/ RetryFinishedJob
    \/ RetryReadFailed
    \/ RetryReset
    \/ RetryUpdateJob
    \/ Crash
    \/ ResumeDeadJob
    \/ ResumeReadStuck
    \/ ResumeFinWrite
    \/ ResumeFinCheck
    \/ ResumeFinInsert
    \/ ResumeReset
    \/ ResumeRecount
    \/ ResumeUpdateJob

SpecDeadJob == Init /\ [][NextDeadJob]_vars

\* the stitch pass when its Remote Client call returns
FinStitchReturns(r) == FinStitch(r) /\ runs'[r].fpc = "stitched"

\* the steps a live process takes by itself: the scheduler, its workers and
\* finalizer, and the resume handler once it is past its first read, with a
\* Remote Client whose calls all return
CrashResumeProgress ==
    \/ \E r \in RunIds : IsJobCancelled(r)
    \/ \E r \in RunIds : StartNextResume(r, FALSE)
    \/ \E r \in RunIds : \E p \in DOMAIN runs[r].inputs : WorkerMarkProcessing(r, p)
    \/ \E r \in RunIds : \E p \in DOMAIN runs[r].inputs : WorkerSucceed(r, p)
    \/ \E r \in RunIds : \E p \in DOMAIN runs[r].inputs : WorkerFail(r, p)
    \/ \E r \in RunIds : \E p \in DOMAIN runs[r].inputs : WorkerIncrement(r, p)
    \/ \E r \in RunIds : FinBegin(r)
    \/ \E r \in RunIds : FinStitchingWrite(r)
    \/ \E r \in RunIds : FinStitchReturns(r)
    \/ \E r \in RunIds : FinTerminalWrite(r)
    \/ \E r \in RunIds : FinCheckMessages(r)
    \/ \E r \in RunIds : FinInsertMessage(r)
    \/ ResumeReadStuck
    \/ ResumeFinWrite
    \/ ResumeFinCheck
    \/ ResumeFinInsert
    \/ ResumeReset
    \/ ResumeRecount
    \/ ResumeUpdateJob

\* a stitched job, a process death and resume on the dead job
NextCrashResume ==
    \/ StartStitched
    \/ Crash
    \/ ResumeDeadJob
    \/ CrashResumeProgress

\* a live process keeps running: what it can do it eventually does
SpecCrashResume == Init /\ [][NextCrashResume]_vars /\ WF_vars(CrashResumeProgress)

\* the steps a live process takes by itself: the scheduler, its workers and
\* finalizer, and the cancel and retry-failed handlers once past their first
\* store operation
RetryCancelledProgress ==
    \/ \E r \in RunIds : IsJobCancelled(r)
    \/ \E r \in RunIds : StartNextResume(r, FALSE)
    \/ \E r \in RunIds : \E p \in DOMAIN runs[r].inputs : WorkerMarkProcessing(r, p)
    \/ \E r \in RunIds : \E p \in DOMAIN runs[r].inputs : WorkerSucceed(r, p)
    \/ \E r \in RunIds : \E p \in DOMAIN runs[r].inputs : WorkerFail(r, p)
    \/ \E r \in RunIds : \E p \in DOMAIN runs[r].inputs : WorkerIncrement(r, p)
    \/ \E r \in RunIds : FinBegin(r)
    \/ \E r \in RunIds : FinStitchingWrite(r)
    \/ \E r \in RunIds : FinStitchReturns(r)
    \/ \E r \in RunIds : FinTerminalWrite(r)
    \/ \E r \in RunIds : FinInsertMessage(r)
    \/ CancelChunks
    \/ RetryReadFailed
    \/ RetryReset
    \/ RetryUpdateJob

\* a job whose process may die, cancelled and retried while no scheduler
\* invocation is running it
NextRetryCancelled ==
    \/ Start
    \/ Crash
    \/ CancelFinishedJob
    \/ RetryFinishedJob
    \/ RetryCancelledProgress

SpecRetryCancelled == Init /\ [][NextRetryCancelled]_vars /\ WF_vars(RetryCancelledProgress)

\* ----------------------------------------------------------- stitchResults
MaxOutputs == 3          \* stitchResults is given 0..MaxOutputs chunk outputs
MaxTextLen == 2          \* of 0..MaxTextLen characters each
MaxContext == 2          \* contextLength is 0..MaxContext
MaxOutputTokens == 2     \* maxOutputTokens is unknown or 0..MaxOutputTokens

ASCII_MAX == 127         \* text.charCodeAt(i) > 127 counts as non-ASCII
LatinChar == 97          \* "a"
IndicChar == 2309        \* the Devanagari letter a
BOUNDARY == -7           \* "\n\n---CHUNK BOUNDARY---\n\n"
UNKNOWN == -1            \* maxOutputTokens not given (undefined)

\* the engine's state, which a library function applied on its own leaves alone
EngineVars == <<job, chunks, messages, runs, runCount, retryReq, resumeReq, cancelReq,
                crashes, stream>>

\* the strings of at most n characters
RECURSIVE TextsUpTo(_)
TextsUpTo(n) ==
    IF n = 0 THEN {Empty}
    ELSE LET shorter == TextsUpTo(n - 1)
         IN shorter \cup {t \o <<c>> : t \in shorter, c \in {LatinChar, IndicChar}}

\* the arrays of at most n strings
RECURSIVE OutputsUpTo(_)
OutputsUpTo(n) ==
    IF n = 0 THEN {<<>>}
    ELSE LET shorter == OutputsUpTo(n - 1)
         IN shorter \cup {o \o <<t>> : o \in shorter, t \in TextsUpTo(MaxTextLen)}

\* Math.ceil(asciiCount / 4 + nonAsciiCount / 1.5), which is the ceiling of
\* (3 * asciiCount + 8 * nonAsciiCount) / 12
estimateTokens(text) ==
    LET nonAsciiCount == Cardinality({i \in DOMAIN text : text[i] > ASCII_MAX})
        asciiCount == Len(text) - nonAsciiCount
    IN (3 * asciiCount + 8 * nonAsciiCount + 11) \div 12

\* chunkOutputs.reduce((sum, o) => sum + estimateTokens(o), 0)
RECURSIVE totalOutputTokens(_)
totalOutputTokens(chunkOutputs) ==
    IF chunkOutputs = <<>> THEN 0
    ELSE estimateTokens(Head(chunkOutputs)) + totalOutputTokens(Tail(chunkOutputs))

\* maxOutputTokens ?? Math.floor(contextLength * 0.5)
effectiveMaxOutput(contextLength, maxOutputTokens) ==
    IF maxOutputTokens = UNKNOWN THEN contextLength \div 2 ELSE maxOutputTokens

\* a margin that drops the 0.9 of the comparison
ExceedsWholeLimit(total, limit) == total > limit

\* totalOutputTokens > effectiveMaxOutput * 0.9, over the integers
ExceedsOutputLimit(total, limit) == total * 10 > limit * 9

\* outputs.join("\n\n---CHUNK BOUNDARY---\n\n")
RECURSIVE JoinBoundary(_)
JoinBoundary(texts) ==
    IF Len(texts) = 0 THEN Empty
    ELSE IF Len(texts) = 1 THEN texts[1]
    ELSE texts[1] \o <<BOUNDARY>> \o JoinBoundary(Tail(texts))

\* what chatCompletion can answer: a text or none, with or without usage figures
Replies == [content : {NULL, StitchedText}, total_tokens : {0, 1}, cost : {0, 1}]

\* stitchResults is called with arguments drawn from the bounded sets
StitchCalls ==
    [fn : {"stitchResults"}, pc : {"called"}, chunkOutputs : OutputsUpTo(MaxOutputs),
     contextLength : 0..MaxContext, maxOutputTokens : {UNKNOWN} \cup 0..MaxOutputTokens,
     remoteCalls : {0}, result : {NULL}]

\* stitchResults up to its return or to doStitch's chatCompletion call
StitchEnter ==
    /\ call.fn = "stitchResults"
    /\ call.pc = "called"
    /\ LET outs == call.chunkOutputs
           limit == effectiveMaxOutput(call.contextLength, call.maxOutputTokens)
       IN IF Len(outs) <= 1
          THEN call' = [call EXCEPT !.pc = "returned",
                           !.result = [output |-> IF Len(outs) = 1 THEN outs[1] ELSE Empty,
                                       tokens |-> 0, cost |-> 0]]
          ELSE IF ExceedsOutputLimit(totalOutputTokens(outs), limit)
          THEN call' = [call EXCEPT !.pc = "returned",
                           !.result = [output |-> Join(outs), tokens |-> 0, cost |-> 0]]
          ELSE call' = [call EXCEPT !.pc = "chatCompletion", !.remoteCalls = @ + 1]
    /\ UNCHANGED EngineVars

\* doStitch after chatCompletion answered
StitchReply ==
    /\ call.fn = "stitchResults"
    /\ call.pc = "chatCompletion"
    /\ \E response \in Replies :
           call' = [call EXCEPT !.pc = "returned",
                       !.result = [output |-> IF response.content = NULL
                                                THEN JoinBoundary(call.chunkOutputs)
                                                ELSE response.content,
                                   tokens |-> response.total_tokens,
                                   cost |-> response.cost]]
    /\ UNCHANGED EngineVars

\* chatCompletion threw: doStitch and stitchResults reject
StitchThrow ==
    /\ call.fn = "stitchResults"
    /\ call.pc = "chatCompletion"
    /\ call' = [call EXCEPT !.pc = "thrown"]
    /\ UNCHANGED EngineVars

InitStitch ==
    /\ call \in StitchCalls
    /\ stream = NoStream
    /\ job = NoJobRow
    /\ chunks = <<>>
    /\ messages = <<>>
    /\ runs = [r \in RunIds |-> NoRun]
    /\ runCount = 0
    /\ retryReq = NoReq
    /\ resumeReq = NoReq
    /\ cancelReq = "idle"
    /\ crashes = 0

NextStitch == StitchEnter \/ StitchReply \/ StitchThrow

SpecStitch == InitStitch /\ [][NextStitch]_vars

\* ------------------------------------------------------------------ stream
STALE_THRESHOLD_MS == 3  \* 3 * 60 * 1000 ms; the stream's clock counts minutes
MaxElapsed == 4          \* minutes the clock runs on after the last progress seen

\* what one subscription holds between two of its steps: where its loop stands,
\* lastSeenCompleted, Date.now() - lastProgressTime, the job row it read, and
\* the frames its latest sendEvent calls enqueued
NoRow == [status |-> "none", totalChunks |-> 0, completedChunks |-> 0]

NewStream ==
    [pc |-> "job", lastSeenCompleted |-> -1, sinceProgress |-> 0, row |-> NoRow,
     frames |-> <<>>]

DoneFrame == [done |-> TRUE]
ErrorFrame == [error |-> "Job not found"]

StreamOpenPcs == {"job", "chunks", "wait"}

\* job.status === "processing" && timeSinceProgress > 0 && job.completedChunks <
\* job.totalChunks: staleness with no threshold
IsStaleAtOnce(row, timeSinceProgress) ==
    /\ row.status = "processing"
    /\ timeSinceProgress > 0
    /\ row.completedChunks < row.totalChunks

\* const isStale = ...
IsStale(row, timeSinceProgress) ==
    /\ row.status = "processing"
    /\ timeSinceProgress > STALE_THRESHOLD_MS
    /\ row.completedChunks < row.totalChunks

\* the snapshot frame without the fields copied from the chunk list
Snapshot(row, timeSinceProgress) ==
    [status |-> row.status, totalChunks |-> row.totalChunks,
     completedChunks |-> row.completedChunks,
     isStale |-> IsStale(row, timeSinceProgress),
     staleDurationMs |-> IF IsStale(row, timeSinceProgress) THEN timeSinceProgress ELSE 0]

\* GET: the locals are set and the loop issues its first job select
StreamOpen ==
    /\ stream.pc = "none"
    /\ stream' = NewStream
    /\ UNCHANGED <<call, job, chunks, messages, runs, runCount, retryReq, resumeReq,
                   cancelReq, crashes>>

\* the job select answers; a missing job ends the stream with an error frame,
\* otherwise the chunk list select is issued
StreamReadJob ==
    /\ stream.pc = "job"
    /\ stream' = IF job.status = "none"
                 THEN [stream EXCEPT !.pc = "closed", !.frames = <<ErrorFrame>>]
                 ELSE [stream EXCEPT !.pc = "chunks",
                          !.row = [status |-> job.status,
                                   totalChunks |-> job.totalChunks,
                                   completedChunks |-> job.completedChunks]]
    /\ UNCHANGED <<call, job, chunks, messages, runs, runCount, retryReq, resumeReq,
                   cancelReq, crashes>>

\* the chunk list select answers: staleness detection, the snapshot, and for a
\* terminal status the done frame and close; otherwise the 1.5 s wait begins
StreamSend ==
    /\ stream.pc = "chunks"
    /\ LET row == stream.row
           progressed == row.completedChunks # stream.lastSeenCompleted
           timeSinceProgress == IF progressed THEN 0 ELSE stream.sinceProgress
           snapshot == Snapshot(row, timeSinceProgress)
       IN stream' = [stream EXCEPT
              !.lastSeenCompleted = row.completedChunks,
              !.sinceProgress = timeSinceProgress,
              !.row = NoRow,
              !.pc = IF row.status \in {"completed", "failed", "cancelled"}
                     THEN "closed" ELSE "wait",
              !.frames = IF row.status \in {"completed", "failed", "cancelled"}
                         THEN <<snapshot, DoneFrame>> ELSE <<snapshot>>]
    /\ UNCHANGED <<call, job, chunks, messages, runs, runCount, retryReq, resumeReq,
                   cancelReq, crashes>>

\* the timer of the wait fires and the loop issues the next job select
StreamWake ==
    /\ stream.pc = "wait"
    /\ stream' = [stream EXCEPT !.pc = "job"]
    /\ UNCHANGED <<call, job, chunks, messages, runs, runCount, retryReq, resumeReq,
                   cancelReq, crashes>>

\* a select throws: the catch closes the stream
StreamCatch ==
    /\ stream.pc \in {"job", "chunks"}
    /\ stream' = [stream EXCEPT !.pc = "closed"]
    /\ UNCHANGED <<call, job, chunks, messages, runs, runCount, retryReq, resumeReq,
                   cancelReq, crashes>>

\* a minute passes while the loop waits (the selects answer within the minute)
Tick ==
    /\ stream.pc = "wait"
    /\ stream.sinceProgress < MaxElapsed
    /\ stream' = [stream EXCEPT !.sinceProgress = @ + 1]
    /\ UNCHANGED <<call, job, chunks, messages, runs, runCount, retryReq, resumeReq,
                   cancelReq, crashes>>

\* the steps the publisher takes by itself while the store answers
StreamProgress == StreamReadJob \/ StreamSend \/ StreamWake

\* one subscription to a job that is started, cancelled and retried while no
\* scheduler invocation is running it, in a process that may die
NextStream ==
    \/ Start
    \/ Crash
    \/ CancelFinishedJob
    \/ RetryFinishedJob
    \/ RetryCancelledProgress
    \/ StreamOpen
    \/ StreamProgress
    \/ StreamCatch

\* the process and the publisher keep taking their own steps
SpecStream ==
    /\ Init
    /\ [][NextStream]_vars
    /\ WF_vars(RetryCancelledProgress)
    /\ WF_vars(StreamProgress)

\* the same subscription with the clock running
NextStale == NextStream \/ Tick

SpecStale == Init /\ [][NextStale]_vars

\* ----------------------------------------------------------------- chunker
MaxShortLen == 4         \* every text of 0..MaxShortLen characters is split
MaxShortTokens == 2      \* with maxChunkTokens 0..MaxShortTokens
MediumRun == 6           \* texts of three runs of MediumRun letters and two separators
MediumTokens == 6        \* are split with maxChunkTokens MediumTokens
LongRun == 330           \* and texts of three runs of LongRun letters
LongTokens == 300        \* with maxChunkTokens LongTokens, which is above OVERLAP_TOKENS
BlankRun == 8004         \* texts of BlankRun characters, white space but for one at most,
BlankTokens == 2000      \* with maxChunkTokens BlankTokens, the least that start passes

OVERLAP_TOKENS == 200
Space == 32
Newline == 10
Dot == 46
Bang == 33
Question == 63
Hash == 35
EqualsSign == 61
Dash == 45

\* the characters that trim() strips and \s matches, among those of the texts
Whitespace == {Space, Newline}

\* String.prototype.slice(from, to)
Slice(text, from, to) ==
    LET Norm(i) == IF i < 0 THEN (IF Len(text) + i < 0 THEN 0 ELSE Len(text) + i)
                   ELSE IF i > Len(text) THEN Len(text) ELSE i
    IN SubSeq(text, Norm(from) + 1, Norm(to))

\* String.prototype.trim()
Trim(text) ==
    IF \A i \in DOMAIN text : text[i] \in Whitespace THEN Empty
    ELSE LET first == CHOOSE i \in DOMAIN text :
                          /\ text[i] \notin Whitespace
                          /\ \A j \in 1..(i - 1) : text[j] \in Whitespace
             last == CHOOSE i \in DOMAIN text :
                         /\ text[i] \notin Whitespace
                         /\ \A j \in (i + 1)..Len(text) : text[j] \in Whitespace
         IN SubSeq(text, first, last)

\* findBestBreakPoint(text, maxChars), searchStart being Math.floor(maxChars * 0.7)
findBestBreakPoint(text, maxChars, searchStart) ==
    LET searchRegion == Slice(text, searchStart, Len(text))
        n == Len(searchRegion)
        At(i) == searchRegion[i + 1]
        Last(S) == CHOOSE i \in S : \A j \in S : j <= i
        RunOf(c, i, k) == i + k <= n /\ \A d \in 0..(k - 1) : At(i + d) = c
        \* #{1,3}\s at index i
        Heading(i) == \E h \in 1..3 : RunOf(Hash, i, h) /\ i + h < n
                                      /\ At(i + h) \in Whitespace
        \* \n={3,} or \n-{3,} at index i
        Divider(i) == i < n /\ At(i) = Newline
                      /\ (RunOf(EqualsSign, i + 1, 3) \/ RunOf(Dash, i + 1, 3))
        sectionBreaks == {i \in 0..(n - 1) :
                              At(i) = Newline /\ (Heading(i + 1) \/ Divider(i + 1))}
        doubleNewlines == {i \in 0..(n - 2) : At(i) = Newline /\ At(i + 1) = Newline}
        newlines == {i \in 0..(n - 1) : At(i) = Newline}
        \* [.!?]\s+ : the matches start at a mark followed by white space and
        \* take all the white space that follows
        sentenceBreaks == {i \in 0..(n - 2) : At(i) \in {Dot, Bang, Question}
                                              /\ At(i + 1) \in Whitespace}
        MatchEnd(i) == CHOOSE e \in (i + 2)..n :
                           /\ \A d \in (i + 1)..(e - 1) : At(d) \in Whitespace
                           /\ e = n \/ At(e) \notin Whitespace
        spaces == {i \in 0..(n - 1) : At(i) = Space}
    IN IF sectionBreaks # {} THEN searchStart + Last(sectionBreaks)
       ELSE IF doubleNewlines # {} THEN searchStart + Last(doubleNewlines) + 2
       ELSE IF newlines # {} THEN searchStart + Last(newlines) + 1
       ELSE IF sentenceBreaks # {} THEN searchStart + MatchEnd(Last(sentenceBreaks))
       ELSE IF spaces # {} THEN searchStart + Last(spaces) + 1
       ELSE maxChars

\* the next offset as the slice's end plus one
NextOffsetPastEnd(end, overlapChars, offset) == end + 1

\* the next offset as the overlap alone gives it
NextOffsetOverlapOnly(end, overlapChars, offset) == end - overlapChars

\* Math.max(end - overlapChars, offset + 1)
NextOffset(end, overlapChars, offset) ==
    IF end - overlapChars > offset + 1 THEN end - overlapChars ELSE offset + 1

\* splitTextIntoChunks is called with a short text, with a text of three runs
\* of one letter around two separators, or with a text of spaces that has no
\* letter or one letter at an end and with the least maxChunkTokens that
\* calculateMaxChunkTokens returns
SplitCalls ==
    LET RECURSIVE ShortTexts(_)
        ShortTexts(n) ==
            IF n = 0 THEN {Empty}
            ELSE LET shorter == ShortTexts(n - 1)
                 IN shorter \cup {t \o <<c>> : t \in shorter,
                        c \in {LatinChar, IndicChar, Space, Newline, Dot, Hash}}
        Run(n) == [i \in 1..n |-> IndicChar]
        Separators ==
            {<<>>, <<Space>>, <<Dot, Space, Space>>, <<Newline>>, <<Newline, Newline>>,
             <<Newline, Hash, Hash, Space>>, <<Newline, Hash, Hash, Hash, Hash, Space>>,
             <<Newline, Newline, EqualsSign, EqualsSign, EqualsSign>>,
             <<Newline, Newline, Dash, Dash, Dash, Dash>>}
        RunTexts(n) == {Run(n) \o s1 \o Run(n) \o s2 \o Run(n) : s1, s2 \in Separators}
        BlankTexts(n) == {[i \in 1..n |-> IF i = at THEN LatinChar ELSE Space] :
                             at \in {0, 1, n}}
        Called(texts, tokens) ==
            [fn : {"splitTextIntoChunks"}, pc : {"called"}, text : texts,
             maxChunkTokens : tokens, maxChunkChars : {0}, overlapChars : {0},
             offset : {0}, chunks : {<<>>}, slices : {<<>>}]
    IN Called(ShortTexts(MaxShortLen), 0..MaxShortTokens)
       \cup Called(RunTexts(MediumRun), {MediumTokens})
       \cup Called(RunTexts(LongRun), {LongTokens})
       \cup Called(BlankTexts(BlankRun), {BlankTokens})

\* splitTextIntoChunks up to its loop: the budgets in characters and the early
\* exit.  Math.floor(k * (length / tokens)) is floor(k * length / tokens), or one
\* less when the double product of an inexact ratio falls just below an integer
SplitEnter ==
    /\ call.fn = "splitTextIntoChunks"
    /\ call.pc = "called"
    /\ LET length == Len(call.text)
           totalTokens == estimateTokens(call.text)
           tokens == IF totalTokens > 1 THEN totalTokens ELSE 1
           FloorTimes(k) ==
               {(k * length) \div tokens}
               \cup (IF (k * length) % tokens = 0 /\ length % tokens # 0 /\ k > 0
                     THEN {((k * length) \div tokens) - 1} ELSE {})
       IN IF totalTokens <= call.maxChunkTokens
          THEN call' = [call EXCEPT !.pc = "returned",
                           !.chunks = <<[index |-> 0, text |-> call.text]>>,
                           !.slices = <<<<0, length>>>>]
          ELSE \E maxChunkChars \in FloorTimes(call.maxChunkTokens),
                  overlapChars \in FloorTimes(OVERLAP_TOKENS) :
                   call' = [call EXCEPT !.pc = IF 0 < length THEN "loop" ELSE "returned",
                               !.maxChunkChars = maxChunkChars,
                               !.overlapChars = overlapChars]
    /\ UNCHANGED EngineVars

\* the call after one iteration of the while loop, up to the loop's next test
Iteration(c, searchStart) ==
    LET text == c.text
        offset == c.offset
        reach == IF offset + c.maxChunkChars < Len(text)
                 THEN offset + c.maxChunkChars ELSE Len(text)
        end == IF reach < Len(text)
               THEN offset + findBestBreakPoint(Slice(text, offset, reach),
                                                c.maxChunkChars, searchStart)
               ELSE reach
        chunkText == Trim(Slice(text, offset, end))
        pushed == IF Len(chunkText) > 0
                  THEN Append(c.chunks, [index |-> Len(c.chunks), text |-> chunkText])
                  ELSE c.chunks
        next == NextOffset(end, c.overlapChars, offset)
    IN [c EXCEPT !.chunks = pushed,
                 !.slices = Append(@, <<offset, end>>),
                 !.offset = IF end >= Len(text) THEN offset ELSE next,
                 !.pc = IF end >= Len(text) \/ ~(next < Len(text))
                        THEN "returned" ELSE "loop"]

\* one iteration of the while loop.  Math.floor(maxChars * 0.7) is
\* floor(7 * maxChars / 10), or one less when the double product falls just below
\* an integer
SplitIterate ==
    /\ call.fn = "splitTextIntoChunks"
    /\ call.pc = "loop"
    /\ \E searchStart \in
           {(7 * call.maxChunkChars) \div 10}
           \cup (IF call.maxChunkChars % 10 = 0 /\ call.maxChunkChars > 0
                 THEN {((7 * call.maxChunkChars) \div 10) - 1} ELSE {}) :
           call' = Iteration(call, searchStart)
    /\ UNCHANGED EngineVars

\* ------------------------------------------------------------- chunk sizer
CtxStep == 1023          \* context lengths are the multiples of CtxStep
MaxCtxSteps == 16        \* up to MaxCtxSteps of them
InstrStep == 150         \* instruction sizes are the multiples of InstrStep
MaxInstrSteps == 2
OutStep == 555           \* output limits are the multiples of OutStep, or unknown
MaxOutSteps == 8

systemPromptReserve == 500
chunkMetadataReserve == 100
ChunkFloor == 2000

\* the result without the floor of ChunkFloor tokens
LimitWithoutFloor(limit) == limit

\* Math.max(Math.floor(limit), 2000)
LimitWithFloor(limit) == IF limit > ChunkFloor THEN limit ELSE ChunkFloor

\* calculateMaxChunkTokens(contextLength, instructionTokens, maxOutputTokens):
\* a maxOutputTokens of 0 or undefined gives an output-based limit of Infinity
calculateMaxChunkTokens(contextLength, instructionTokens, maxOutputTokens) ==
    LET overlapReserve == OVERLAP_TOKENS
        contextBasedLimit == ((4 * contextLength) \div 10) - systemPromptReserve
                             - instructionTokens - chunkMetadataReserve - overlapReserve
        outputBasedLimit == (9 * maxOutputTokens) \div 10
        limit == IF maxOutputTokens = UNKNOWN \/ maxOutputTokens = 0
                 THEN contextBasedLimit
                 ELSE IF contextBasedLimit < outputBasedLimit
                      THEN contextBasedLimit ELSE outputBasedLimit
    IN LimitWithFloor(limit)

SizerCalls ==
    [fn : {"calculateMaxChunkTokens"}, pc : {"called"},
     contextLength : {CtxStep * k : k \in 0..MaxCtxSteps},
     instructionTokens : {InstrStep * k : k \in 0..MaxInstrSteps},
     maxOutputTokens : {UNKNOWN} \cup {OutStep * k : k \in 0..MaxOutSteps},
     result : {UNKNOWN}]

SizeChunks ==
    /\ call.fn = "calculateMaxChunkTokens"
    /\ call.pc = "called"
    /\ call' = [call EXCEPT !.pc = "returned",
                   !.result = calculateMaxChunkTokens(call.contextLength,
                                  call.instructionTokens, call.maxOutputTokens)]
    /\ UNCHANGED EngineVars

\* the planner's two functions, each called once with inputs of the sets above
InitChunker ==
    /\ job = NoJobRow
    /\ chunks = <<>>
    /\ messages = <<>>
    /\ runs = [r \in RunIds |-> NoRun]
    /\ runCount = 0
    /\ retryReq = NoReq
    /\ resumeReq = NoReq
    /\ cancelReq = "idle"
    /\ crashes = 0
    /\ stream = NoStream
    /\ call \in SplitCalls \cup SizerCalls

NextChunker == SplitEnter \/ SplitIterate \/ SizeChunks

SpecChunker == InitChunker /\ [][NextChunker]_vars

\* the chunker alone, called with the short texts; the function is synchronous,
\* so a call that has begun goes on until it returns
InitLoop ==
    /\ InitChunker
    /\ call.fn = "splitTextIntoChunks"
    /\ Len(call.text) <= MaxShortLen

NextLoop == SplitEnter \/ SplitIterate

SpecLoop == InitLoop /\ [][NextLoop]_vars /\ WF_vars(NextLoop)

\* ------------------------------------------------------- scheduler alone
\* start on a text that splits into 0..MaxChunks chunks: the job row is
\* inserted with totalChunks = chunkInputs.length and processChunksInParallel
\* is called with the list, the empty list included
StartAnyList == \E n \in 0..MaxChunks, stitch \in BOOLEAN : StartJob(n, stitch)

\* one job under start and cancel, in a process that stays alive
NextScheduler ==
    \/ StartAnyList
    \/ Cancel
    \/ Scheduler

\* every store operation and every Remote Client call returns, so what the
\* scheduler, its workers and its finalizer can do they eventually do
SpecScheduler == Init /\ [][NextScheduler]_vars /\ WF_vars(Scheduler)

\* ------------------------------------------------- a job never cancelled
\* the steps the scheduler invocations of a live process take by themselves
\* when no cancel is issued: the dispatcher, the workers and the finalizer
LiveScheduler ==
    \/ \E r \in RunIds : IsJobCancelled(r)
    \/ \E r \in RunIds : StartNextResume(r, FALSE)
    \/ \E r \in RunIds : \E p \in DOMAIN runs[r].inputs : WorkerMarkProcessing(r, p)
    \/ \E r \in RunIds : \E p \in DOMAIN runs[r].inputs : WorkerSucceed(r, p)
    \/ \E r \in RunIds : \E p \in DOMAIN runs[r].inputs : WorkerFail(r, p)
    \/ \E r \in RunIds : \E p \in DOMAIN runs[r].inputs : WorkerIncrement(r, p)
    \/ \E r \in RunIds : FinBegin(r)
    \/ \E r \in RunIds : FinStitchingWrite(r)
    \/ \E r \in RunIds : FinStitch(r)
    \/ \E r \in RunIds : FinTerminalWrite(r)
    \/ \E r \in RunIds : FinCheckMessages(r)
    \/ \E r \in RunIds : FinInsertMessage(r)
    \/ \E r \in RunIds : FinCatch(r)
    \/ \E r \in RunIds : FinCatchMessage(r)

\* the steps of the retry-failed and resume handlers once past their first read
LiveHandlers ==
    \/ RetryReadFailed
    \/ RetryReset
    \/ RetryUpdateJob
    \/ ResumeReadStuck
    \/ ResumeFinWrite
    \/ ResumeFinCheck
    \/ ResumeFinInsert
    \/ ResumeReset
    \/ ResumeRecount
    \/ ResumeUpdateJob

\* one job under start, retry-failed and resume, in a process that stays alive
NextLive ==
    \/ StartAnyList
    \/ RetryRequest
    \/ ResumeRequest
    \/ LiveScheduler
    \/ LiveHandlers

\* every store operation and every Remote Client call returns: the event loop
\* runs each pending continuation, of a scheduler invocation and of a handler
SpecLive == Init /\ [][NextLive]_vars /\ WF_vars(LiveScheduler) /\ WF_vars(LiveHandlers)

\* ------------------------------------------------------ rate-limit errors
\* one job run by the scheduler start launches, with a Remote Client whose calls
\* return a text, throw a rate-limit error or throw another error
NextRateLimit ==
    \/ Start
    \/ \E r \in RunIds : IsJobCancelled(r)
    \/ \E r \in RunIds : StartNextResume(r, FALSE)
    \/ \E r \in RunIds : \E p \in DOMAIN runs[r].inputs : WorkerMarkProcessing(r, p)
    \/ \E r \in RunIds : \E p \in DOMAIN runs[r].inputs : WorkerSucceed(r, p)
    \/ \E r \in RunIds : \E p \in DOMAIN runs[r].inputs :
           \E error \in {ErrText, RateLimitText} : WorkerCatch(r, p, error)
    \/ \E r \in RunIds : \E p \in DOMAIN runs[r].inputs : WorkerIncrement(r, p)
    \/ \E r \in RunIds : FinBegin(r)
    \/ \E r \in RunIds : FinStitchingWrite(r)
    \/ \E r \in RunIds : FinStitch(r)
    \/ \E r \in RunIds : FinTerminalWrite(r)
    \/ \E r \in RunIds : FinInsertMessage(r)
    \/ \E r \in RunIds : FinCatch(r)
    \/ \E r \in RunIds : FinCatchMessage(r)

SpecRateLimit == Init /\ [][NextRateLimit]_vars

\* ------------------------------------------------------- cancel, any job id
\* cancel on an id that no job row has: the update returns no row and the
\* handler answers 404 "Job not found"
CancelUnknown ==
    /\ NoHandler
    /\ job.status = "none"
    /\ cancelReq' = "notFound"
    /\ UNCHANGED <<call, stream, job, chunks, messages, runs, runCount, retryReq, resumeReq, crashes>>

\* the 404 response has been sent
CancelReply ==
    /\ cancelReq = "notFound"
    /\ cancelReq' = "idle"
    /\ UNCHANGED <<call, stream, job, chunks, messages, runs, runCount, retryReq, resumeReq, crashes>>

\* one job under start and cancel, cancel being requested before the job exists
\* as well
NextCancel ==
    \/ NextScheduler
    \/ CancelUnknown
    \/ CancelReply

SpecCancel == Init /\ [][NextCancel]_vars

\* ------------------------------------------------ start on a text it split
\* start after its validation (`!text` rejects the empty text) and its call of
\* splitTextIntoChunks with the result of calculateMaxChunkTokens, which is
\* ChunkFloor or more: the job row is inserted with totalChunks =
\* chunkInputs.length, one chunk row per element with the element's index, and
\* processChunksInParallel is called with the list
StartFromSplit ==
    /\ call.fn = "splitTextIntoChunks"
    /\ call.pc = "returned"
    /\ Len(call.text) > 0
    /\ call.maxChunkTokens >= ChunkFloor
    /\ job.status = "none"
    /\ \E stitch \in BOOLEAN :
           job' = [status |-> "processing", totalChunks |-> Len(call.chunks),
                   completedChunks |-> 0, stitchedOutput |-> NULL,
                   enableStitchPass |-> stitch]
    /\ chunks' = [i \in {call.chunks[k].index : k \in DOMAIN call.chunks} |-> NewChunkRow]
    /\ Launch("start", [k \in DOMAIN call.chunks |-> call.chunks[k].index])
    /\ UNCHANGED <<call, stream, messages, retryReq, resumeReq, cancelReq, crashes>>

InitSplit == InitChunker /\ call.fn = "splitTextIntoChunks"

NextSplit == SplitEnter \/ SplitIterate \/ StartFromSplit

\* the chunker called on its own and by start
SpecSplit == InitSplit /\ [][NextSplit]_vars

\* ------------------------------------------------------------------ claims
LiveRuns == {r \in RunIds : runs[r].kind \in {"start", "retry", "resume"}}

\* workers that have called the Remote Client and not yet received its reply
InFlight == {rp \in RunIds \X (1..(MaxChunks + MAX_CONCURRENCY)) :
                /\ rp[2] \in DOMAIN runs[rp[1]].wpc
                /\ runs[rp[1]].wpc[rp[2]] = "calling"}

\* C1: at most MAX_CONCURRENCY workers of the job are inside a Remote Client call
C1_InFlightWithinCap == Cardinality(InFlight) <= MAX_CONCURRENCY

\* this step is the terminal write of scheduler invocation r's finalizer
FinalizerWrites(r) ==
    /\ runs[r].fpc \in {"ready", "stitched"}
    /\ runs'[r].fpc \in {"written", "done"}

\* C2: when a finalizer writes the job's terminal status, completedChunks equals
\* totalChunks
C2_FinishedCountsAll ==
    [][\A r \in RunIds : FinalizerWrites(r) => job'.completedChunks = job'.totalChunks]_vars

\* C3: 0 <= completedChunks <= totalChunks in every state
C3_CounterInRange == 0 <= job.completedChunks /\ job.completedChunks <= job.totalChunks

\* C4: a job whose status is completed has a stitchedOutput that is not null
C4_CompletedHasOutput == job.status = "completed" => job.stitchedOutput # NULL

\* a finalizer has written completed with the empty string as output
C4_Witness == job.status = "completed" /\ job.stitchedOutput = Empty

JobMessages == {k \in 1..Len(messages) : messages[k].by # "prior"}

\* C5: at most one assistant message is inserted on the job's behalf
C5_AtMostOneMessage == Cardinality(JobMessages) <= 1

\* C6: a cancelled job stays cancelled unless retry-failed sets it back to processing
C6_CancelledIsKept ==
    [][(job.status = "cancelled" /\ job'.status # "cancelled")
        => (retryReq.pc = "update" /\ retryReq'.pc = "idle")]_vars

LaunchesIn(r) ==
    \E p \in DOMAIN runs[r].wpc :
        /\ runs[r].wpc[p] = "idle"
        /\ p \in DOMAIN runs'[r].wpc
        /\ runs'[r].wpc[p] = "launched"

\* this step is a startNext of r resuming with the status read as cancelled
ResumesCancelled(r) == runs'[r].snTrue < runs[r].snTrue /\ runs'[r].kind = runs[r].kind

C8_SingleScheduler == Cardinality(LiveRuns) <= 1

IsCompletedRow(c) == c.status = "completed"

\* C9: without the stitch pass, a completed job's stitchedOutput is the outputs of
\* the completed chunks joined by a blank line in index order
C9_OutputIsCompletedChunks ==
    (job.status = "completed" /\ job.stitchedOutput # StitchedText)
        => job.stitchedOutput = Join(RowOutputs(SelectSeq(ChunkRows, IsCompletedRow)))

\* C10: a finalizer writes failed exactly when every chunk of the job is failed
C10_FailedIffAllFailed ==
    [][\A r \in RunIds : FinalizerWrites(r) =>
        (job'.status = "failed" <=> \A i \in DOMAIN chunks : chunks[i].status = "failed")]_vars
\* the status lattice: pending -> processing -> [stitching ->] completed | failed,
\* and {pending, processing, stitching} -> cancelled; "none" is the job not yet
\* inserted
LatticeStep(from, to) ==
    \/ from = "none" /\ to \in {"pending", "processing"}
    \/ from = "pending" /\ to \in {"processing", "cancelled"}
    \/ from = "processing" /\ to \in {"stitching", "completed", "failed", "cancelled"}
    \/ from = "stitching" /\ to \in {"completed", "failed", "cancelled"}

\* this step is the job update of retry-failed or of resume, which sets processing
SetsBackToProcessing ==
    /\ job'.status = "processing"
    /\ \/ retryReq.pc = "update" /\ retryReq'.pc = "idle"
       \/ resumeReq.pc = "update" /\ resumeReq'.pc = "idle"

\* C11: every change of the job's status is a step of the lattice, or retry-failed
\* or resume setting the job back to processing
C11_StatusLattice ==
    [][job'.status # job.status =>
        (LatticeStep(job.status, job'.status) \/ SetsBackToProcessing)]_vars
RetryDecrements ==
    /\ retryReq.pc = "update" /\ retryReq'.pc = "idle"
    /\ job'.completedChunks = retryReq.completedChunks - Cardinality(retryReq.targets)

\* this step is resume's job update, writing the count of completed and failed
\* rows it read
ResumeRecounts ==
    /\ resumeReq.pc = "update" /\ resumeReq'.pc = "idle"
    /\ job'.completedChunks = resumeReq.completedChunks

ResumeInserts ==
    /\ Len(messages') = Len(messages) + 1
    /\ messages'[Len(messages')].by = "resume"

\* C13: resume inserts no assistant message for a job that already has one
C13_ResumeInsertsNoSecond == [][ResumeInserts => JobMessages = {}]_vars
\* resume, called after a process death, has found chunks in processing and in
\* pending
ResumedAfterCrash ==
    /\ crashes > 0
    /\ resumeReq.pc = "reset"
    /\ resumeReq.processing # {}
    /\ resumeReq.targets # resumeReq.processing

\* the job is completed or failed, every chunk is completed or failed and the job
\* has exactly one assistant message
FinalizedWithOneMessage ==
    /\ job.status \in {"completed", "failed"}
    /\ \A i \in DOMAIN chunks : IsSettled(chunks[i])
    /\ Cardinality(JobMessages) = 1

Terminal == {"completed", "failed", "cancelled"}

\* the scheduler invocations launched by resume
ResumeRuns == {r \in RunIds : runs[r].kind = "resume"}

\* C15: while the job is completed, failed or cancelled, a resume request does not
\* get past its status guard: the handler ends at once and launches no scheduler
\* (every write of the handler and the launch come after the guard)
C15_ResumeRefusesTerminal ==
    [][(job.status \in Terminal /\ resumeReq.pc = "idle") =>
        /\ resumeReq' = NoReq
        /\ \A r \in RunIds : runs'[r].kind = "resume" => r \in ResumeRuns]_vars

\* a cancelled job that still has a chunk in processing or pending, with no request
\* in progress: a resume request made now is refused though there is work it would
\* otherwise pick up
C15_Witness ==
    /\ job.status = "cancelled"
    /\ NoHandler /\ Reserved < MaxRuns
    /\ StatusSet({"processing", "pending"}) # {}
\* a scheduler invocation launched by retry-failed whose chunks have all succeeded
RetrySucceeded(r) ==
    /\ runs[r].kind = "retry"
    /\ \A p \in DOMAIN runs[r].results : runs[r].results[p].status = "completed"

\* C16: retry-failed writes nothing before it has selected the failed chunks; when
\* it selects none it ends without writing a job, chunk or message row and without
\* launching a scheduler; and when the chunks of a retry have all succeeded no
\* failed chunk is left, so that a second retry-failed selects none
C16_RetryWithoutFailedIsNoOp ==
    [][/\ (retryReq.pc = "idle" /\ retryReq'.pc # "idle")
            => UNCHANGED <<job, chunks, messages, runs, runCount>>
       /\ (retryReq.pc = "job" /\ retryReq' # retryReq /\ crashes' = crashes
              /\ StatusSet({"failed"}) = {})
            => (retryReq' = NoReq /\ UNCHANGED <<job, chunks, messages, runs, runCount>>)
       /\ \A r \in RunIds : RetrySucceeded(r) => StatusSet({"failed"}) = {}]_vars

\* a second retry-failed, made after the chunks of the first have succeeded and
\* its scheduler has ended, has read the job row and is about to select no chunk
C16_Witness ==
    /\ retryReq.pc = "job"
    /\ runCount = MaxRuns
    /\ \A r \in RunIds : runs[r].kind = "finished"
    /\ StatusSet({"failed"}) = {}
    /\ StatusSet({"completed"}) = DOMAIN chunks
\* the scheduler launched by retry-failed has resolved, in a process that will not
\* die any more, and every chunk of the job is completed, failed or cancelled
RetryResolved ==
    /\ crashes = MaxCrashes
    /\ \E r \in RunIds : runs[r].kind = "retry" /\ runs[r].fpc = "then"
    /\ StatusSet({"pending", "processing"}) = {}

\* C17: once the scheduler launched by retry-failed has resolved, the job is
\* eventually completed or failed with a stitchedOutput
C17_RetryFinalizes ==
    RetryResolved ~> (job.status \in {"completed", "failed"} /\ job.stitchedOutput # NULL)

\* C18: a stitchResults call with more than one output whose summed token
\* estimate exceeds nine tenths of the effective output limit (maxOutputTokens,
\* or half the context length rounded down when unknown) returns the outputs
\* joined by a blank line, with no call of the remote and no tokens or cost
SummedEstimateOverLimit ==
    /\ Len(call.chunkOutputs) > 1
    /\ LET limit == IF call.maxOutputTokens = UNKNOWN
                    THEN call.contextLength \div 2
                    ELSE call.maxOutputTokens
       IN 10 * totalOutputTokens(call.chunkOutputs) > 9 * limit

C18_StitchSkipped ==
    (call.fn = "stitchResults" /\ call.pc # "called" /\ SummedEstimateOverLimit) =>
        /\ call.pc = "returned"
        /\ call.remoteCalls = 0
        /\ call.result = [output |-> Join(call.chunkOutputs), tokens |-> 0, cost |-> 0]

\* three outputs, one of them of non-ASCII characters, were over the limit known
\* only from the context length and came back joined
C18_Witness ==
    /\ call.fn = "stitchResults"
    /\ call.pc = "returned"
    /\ SummedEstimateOverLimit
    /\ call.maxOutputTokens = UNKNOWN
    /\ call.contextLength = MaxContext
    /\ Len(call.chunkOutputs) = 3
    /\ \E i \in DOMAIN call.chunkOutputs : estimateTokens(call.chunkOutputs[i]) = 2

\* C19: the frames of a subscription are snapshots, the first terminal one
\* followed at once by done and close; nothing is sent after done; done follows
\* no non-terminal snapshot; and a job that reaches a terminal status while the
\* subscriber is connected gets its done frame
StreamFramesOrdered ==
    stream.pc # "none" =>
        /\ Len(stream.frames) <= 2
        /\ stream.frames # <<>> /\ stream.frames[1] # ErrorFrame =>
               /\ stream.frames[1] # DoneFrame
               /\ stream.frames[1].status \in Terminal <=> Len(stream.frames) = 2
               /\ Len(stream.frames) = 2 => stream.frames[2] = DoneFrame /\ stream.pc = "closed"

ClosedStreamSilent == stream.pc = "closed" => stream' = stream

DoneSent == stream.pc = "closed" /\ Len(stream.frames) = 2 /\ stream.frames[2] = DoneFrame

Disconnected == stream.pc = "closed" /\ ~DoneSent

TerminalWhileSubscribed == stream.pc \in StreamOpenPcs /\ job.status \in Terminal

C19_DoneAfterTerminal ==
    /\ []StreamFramesOrdered
    /\ [][ClosedStreamSilent]_vars
    /\ TerminalWhileSubscribed ~> (DoneSent \/ Disconnected)

\* the ordering of the frames alone
StreamFramesInOrder == []StreamFramesOrdered /\ [][ClosedStreamSilent]_vars

\* C20: a snapshot has isStale true exactly when the status it reports is
\* processing, its completedChunks is below its totalChunks and more than three
\* minutes passed since the stream last sent a snapshot with another
\* completedChunks (or since it opened); every other snapshot has isStale false
\* and staleDurationMs 0
SendsSnapshot == stream.pc = "chunks" /\ stream'.pc \in {"wait", "closed"} /\ stream'.row = NoRow

\* this snapshot's completedChunks differs from the one sent before, if any
ObservesChange ==
    \/ stream.frames = <<>>
    \/ stream'.frames[1].completedChunks # stream.frames[1].completedChunks

\* the stream's clock runs by the minute, and restarts exactly at a snapshot
\* that observes a change
ClockSinceChange ==
    /\ SendsSnapshot => stream'.sinceProgress = IF ObservesChange THEN 0 ELSE stream.sinceProgress
    /\ (~SendsSnapshot /\ stream.pc \in StreamOpenPcs /\ stream'.sinceProgress # stream.sinceProgress) =>
           /\ stream'.sinceProgress = stream.sinceProgress + 1
           /\ stream' = [stream EXCEPT !.sinceProgress = @ + 1]

C21_TerminalChunkFrozen ==
    [][\A i \in DOMAIN chunks :
           (chunks[i].status \in Terminal /\ chunks'[i] # chunks[i]) =>
               (retryReq.pc = "reset" /\ chunks'[i] = NewChunkRow)]_vars

\* C22: a chunk whose status is completed has an outputText that is not null
C22_CompletedHasOutput ==
    \A i \in DOMAIN chunks : chunks[i].status = "completed" => chunks[i].outputText # NULL

\* a chunk that failed, was reset by retry-failed (its outputText set to null)
\* and was completed by the retry's worker on a job cancelled in between
C22_Witness ==
    /\ job.status = "cancelled"
    /\ \E r \in RunIds : \E p \in DOMAIN runs[r].inputs :
           /\ runs[r].kind = "retry"
           /\ runs[r].wpc[p] = "wroteOk"
           /\ chunks[runs[r].inputs[p]].status = "completed"
           /\ chunks[runs[r].inputs[p]].outputText # NULL

SplitReturned == call.fn = "splitTextIntoChunks" /\ call.pc = "returned"

\* the slices start at 0, end at the text's end and leave no gap
SlicesLeaveNoGap ==
    /\ Len(call.slices) > 0
    /\ call.slices[1][1] = 0
    /\ call.slices[Len(call.slices)][2] = Len(call.text)
    /\ \A j \in 1..(Len(call.slices) - 1) :
           /\ call.slices[j + 1][1] > call.slices[j][1]
           /\ call.slices[j + 1][1] <= call.slices[j][2]

\* the chunks are the whole text, or the slices without the white space at
\* their ends, the slices of white space alone left out
ChunksKeepSolidText ==
    LET trimmed == [j \in DOMAIN call.slices |->
                        Trim(Slice(call.text, call.slices[j][1], call.slices[j][2]))]
        NonEmpty(t) == Len(t) > 0
        kept == SelectSeq(trimmed, NonEmpty)
    IN \/ call.chunks = <<[index |-> 0, text |-> call.text]>>
       \/ call.chunks = [i \in 1..Len(kept) |-> [index |-> i - 1, text |-> kept[i]]]

C24_LoopTerminates ==
    /\ [][(call.fn = "splitTextIntoChunks" /\ call.pc = "loop" /\ call'.pc = "loop")
              => (call'.offset > call.offset /\ call'.offset < Len(call.text))]_vars
    /\ []((SplitReturned /\ Len(call.text) > 0) => Len(call.chunks) <= Len(call.text))
    /\ (call.fn = "splitTextIntoChunks" /\ Len(call.text) > 0 /\ call.pc = "called")
           ~> SplitReturned

\* a call has returned after three iterations or more, each of which advanced
\* offset by 1 because the overlap is longer than the slice
C24_Witness ==
    /\ SplitReturned
    /\ Len(call.slices) >= 3
    /\ Len(call.chunks) >= 2
    /\ \A j \in 1..(Len(call.slices) - 1) :
           /\ call.slices[j + 1][1] = call.slices[j][1] + 1
           /\ call.slices[j][2] - call.overlapChars < call.slices[j][1]

SizerReturned == call.fn = "calculateMaxChunkTokens" /\ call.pc = "returned"

WorkerBetweenWrites ==
    \E r \in RunIds : \E p \in DOMAIN runs[r].wpc :
        runs[r].wpc[p] \in {"wroteOk", "wroteFail"}

\* C26: whenever no worker of the job is between its chunk-row write and its
\* counter increment (and no handler is between its own reads and writes, and
\* the process has not died), completedChunks is the number of the job's chunks
\* whose status is completed or failed
C26_CountedOnce ==
    (job.status # "none" /\ crashes = 0 /\ ~WorkerBetweenWrites
        /\ retryReq.pc = "idle" /\ resumeReq.pc = "idle" /\ cancelReq = "idle") =>
        job.completedChunks =
            Cardinality({i \in DOMAIN chunks : chunks[i].status \in {"completed", "failed"}})

\* C27: every write of completedChunks is an atomic server-side update, so no
\* increment committed between an operation's read and its write is lost:
\* retry-failed's job update lowers the counter's current value by the number of
\* chunks it reset, and resume's job update sets it to the number of rows that
\* are completed or failed when it writes
C27_NoLostIncrement ==
    [][/\ (retryReq.pc = "update" /\ retryReq'.pc = "idle" /\ crashes' = crashes) =>
              job'.completedChunks = job.completedChunks - Cardinality(retryReq.targets)
       /\ (resumeReq.pc = "update" /\ resumeReq'.pc = "idle" /\ crashes' = crashes) =>
              job'.completedChunks = Cardinality(StatusSet({"completed", "failed"}))]_vars

\* C28: within one scheduler invocation the cancelled flag, once true, stays
\* true, and no chunk is launched while it is true, in whatever order the
\* replies to the pending job-status reads arrive
C28_CancelledIsSticky ==
    [][\A r \in RunIds :
        (runs[r].cancelled /\ runs[r].kind \in {"start", "retry", "resume"}
            /\ runs'[r].kind = runs[r].kind /\ runs'[r].inputs = runs[r].inputs
            /\ crashes' = crashes) =>
            (runs'[r].cancelled /\ ~LaunchesIn(r))]_vars

\* the promise of scheduler invocation r has resolved
Resolved(r) == runs[r].fpc # "none"

\* C29: the promise of processChunksInParallel resolves only after every chunk
\* of its input list has a recorded result, and it eventually resolves for every
\* input list, cancelled in mid-run or not
C29_ResolvesWhenAllRecorded ==
    /\ [](\A r \in RunIds :
            (runs[r].kind = "start" /\ Resolved(r)) =>
                \A p \in DOMAIN runs[r].inputs : runs[r].results[p].status # "none")
    /\ \A r \in RunIds : (runs[r].kind = "start") ~> Resolved(r)

\* C30: with no cancel and no process death, a job that is processing or
\* stitching eventually is completed or failed
C30_JobEventuallyFinal ==
    (job.status \in {"processing", "stitching"}) ~> (job.status \in {"completed", "failed"})

\* C31: for one chunk in one scheduler invocation, a further Remote Client
\* attempt is made only after an attempt failed with a rate-limit error, at most
\* MAX_RETRIES attempts are made in total, and any other error, or the
\* MAX_RETRIES-th rate-limit failure, marks the chunk failed with the error
\* recorded
C31_RetriesOnlyRateLimited ==
    /\ [](\A r \in RunIds : \A p \in DOMAIN runs[r].attempt :
             runs[r].attempt[p] + 1 <= MAX_RETRIES)
    /\ [][\A r \in RunIds : \A p \in DOMAIN runs[r].wpc :
             (runs[r].wpc[p] = "calling" /\ p \in DOMAIN runs'[r].wpc) =>
                 LET row == chunks'[runs[r].inputs[p]]
                 IN /\ runs'[r].attempt[p] # runs[r].attempt[p] =>
                           \/ /\ runs'[r].wpc[p] = "calling"
                              /\ runs'[r].attempt[p] = runs[r].attempt[p] + 1
                              /\ isRateLimit(runs'[r].lastError[p])
                           \/ runs'[r].wpc[p] \in {"wroteOk", "wroteFail"}
                    /\ runs'[r].wpc[p] = "wroteFail" =>
                           /\ row.status = "failed"
                           /\ row.error # NULL
                           /\ isRateLimit(row.error) =>
                                  runs[r].attempt[p] + 1 = MAX_RETRIES
                    /\ (runs'[r].wpc[p] = "calling"
                           /\ runs'[r].lastError[p] # runs[r].lastError[p]) =>
                           runs'[r].attempt[p] = runs[r].attempt[p] + 1]_vars

\* one chunk failed on its third rate-limit error and another on its first
\* error of another kind
C31_Witness ==
    \E i, j \in DOMAIN chunks :
        /\ chunks[i].status = "failed" /\ chunks[i].error = RateLimitText
        /\ chunks[j].status = "failed" /\ chunks[j].error = ErrText

\* the catch of scheduler invocation r's promise chain ends in this step
CatchEnds(r) == runs[r].fpc \in {"catch", "catchMsg"} /\ runs'[r].fpc = "done"

\* C32: when a scheduler run or its finalization throws, the job ends in status
\* failed and an assistant message that begins with [Big Context Processing
\* Failed] is inserted, whether start or resume launched the run
C32_ThrowFailsWithMessage ==
    [][\A r \in RunIds : CatchEnds(r) =>
           /\ job'.status = "failed"
           /\ \E k \in 1..Len(messages') : messages'[k].content = FailedPrefix]_vars

\* this step sets a chunk's outputText to a value or writes the job's
\* stitchedOutput
WritesOutput ==
    \/ job'.stitchedOutput # job.stitchedOutput
    \/ \E i \in DOMAIN chunks :
           chunks'[i].outputText # chunks[i].outputText /\ chunks'[i].outputText # NULL

\* this step is a step of the cancel, retry-failed or resume request handler
HandlerStep ==
    /\ crashes' = crashes
    /\ retryReq' # retryReq \/ resumeReq' # resumeReq \/ cancelReq' # cancelReq

\* C33: no step of the cancel, retry-failed and resume request handlers sets a
\* chunk's outputText to a value or writes the job's stitchedOutput; the steps
\* that do are steps of a scheduler's worker or of a scheduler run's finalizer
C33_HandlersWriteNoOutput ==
    [][WritesOutput => (~HandlerStep /\ runs' # runs)]_vars

\* C34: retry-failed resets exactly the chunks it selected as failed, which
\* are the failed ones, to pending with outputText and error cleared and leaves
\* every other chunk row as it is; it lowers completedChunks by exactly the
\* number of chunks reset; and it runs the scheduler on those chunks only
C34_RetryResetsFailedOnly ==
    [][/\ (retryReq.pc = "job" /\ retryReq'.pc = "reset") =>
              retryReq'.targets = StatusSet({"failed"})
       /\ (retryReq.pc = "reset" /\ retryReq'.pc = "update") =>
              /\ retryReq.targets \subseteq StatusSet({"failed"})
              /\ \A i \in DOMAIN chunks :
                     chunks'[i] = IF i \in retryReq.targets THEN NewChunkRow ELSE chunks[i]
              /\ job' = job
       /\ (retryReq.pc = "update" /\ retryReq'.pc = "idle" /\ crashes' = crashes) =>
              /\ job'.completedChunks = job.completedChunks - Cardinality(retryReq.targets)
              /\ chunks' = chunks
              /\ runs'[runCount'].kind = "retry"
              /\ runs'[runCount'].inputs = SortedSeq(retryReq.targets)]_vars

\* C35: cancel sets the job to cancelled and every chunk that is pending or
\* processing to cancelled, and leaves the chunks that are completed or failed
\* (status, outputText, error), completedChunks and stitchedOutput unchanged; on
\* an unknown job id it reports not-found and changes nothing
C35_CancelFrame ==
    [][/\ (cancelReq = "idle" /\ cancelReq' = "chunks") =>
              /\ job' = [job EXCEPT !.status = "cancelled"]
              /\ UNCHANGED <<chunks, messages>>
       /\ (cancelReq = "chunks" /\ cancelReq' = "idle") =>
              /\ \A i \in DOMAIN chunks :
                     chunks'[i] = IF chunks[i].status \in {"pending", "processing"}
                                  THEN [chunks[i] EXCEPT !.status = "cancelled"]
                                  ELSE chunks[i]
              /\ UNCHANGED <<job, messages>>
       /\ (cancelReq = "idle" /\ cancelReq' # "idle") =>
              (cancelReq' = "notFound" <=> job.status = "none")
       /\ (cancelReq' # cancelReq /\ "notFound" \in {cancelReq, cancelReq'}) =>
              UNCHANGED <<job, chunks, messages, runs, runCount>>]_vars

\* a job cancelled in mid-run: one chunk was completed and counted and has kept
\* its output, another was pending or processing and is cancelled
C35_Witness ==
    /\ job.status = "cancelled"
    /\ cancelReq = "idle"
    /\ job.completedChunks = 1
    /\ \E i, j \in DOMAIN chunks :
           /\ chunks[i].status = "completed" /\ chunks[i].outputText = <<i + 1>>
           /\ chunks[j].status = "cancelled"

\* the number of chunk outputs in a text joined by blank lines
OutputsIn(text) == Cardinality({k \in DOMAIN text : text[k] # SEP})

\* the text is the outputs of some of the job's chunks, in ascending index
\* order, joined by blank lines
PlainConcat(text) ==
    \E S \in SUBSET (DOMAIN chunks) :
        text = Join([k \in 1..Cardinality(S) |-> <<SortedSeq(S)[k] + 1>>])

\* the finalizer of scheduler invocation r decides for the stitch pass
StitchDecided(r) == runs[r].fpc = "ready" /\ runs'[r].fpc = "stitching"

IndexesInOrder == \A k \in DOMAIN call.chunks : call.chunks[k].index = k - 1

\* C37: for every non-empty text and every maxChunkTokens >= 1,
\* splitTextIntoChunks returns at least one chunk and its chunk indexes are
\* exactly 0, 1, ..., n-1 in order, so every job created by start has
\* totalChunks >= 1 and chunk indexes forming the range [0, totalChunks)
C37_AtLeastOneChunk ==
    /\ (SplitReturned /\ Len(call.text) > 0 /\ call.maxChunkTokens >= 1) =>
           (Len(call.chunks) >= 1 /\ IndexesInOrder)
    /\ job.status # "none" =>
           (job.totalChunks >= 1 /\ DOMAIN chunks = 0..(job.totalChunks - 1))

\* no scheduler invocation of the job is alive and no resume handler is in
\* its finalize-only branch
NoFinalizerRunning ==
    /\ \A r \in RunIds : runs[r].kind \in {"none", "finished"}
    /\ resumeReq.pc = "idle"

\* the chat has an assistant message with the job's stitchedOutput, or with a
\* no-output placeholder when that is the empty string
HasOutputMessage ==
    \E k \in 1..Len(messages) :
        \/ messages[k].content = OrPlaceholder(job.stitchedOutput, NoOutputStart)
        \/ messages[k].content = OrPlaceholder(job.stitchedOutput, NoOutputResume)

\* C38: whenever a job is completed and no finalizer is running for it, its
\* chat contains an assistant message whose content is the job's current
\* stitchedOutput (or the no-output placeholder when that is empty)
C38_CompletedHasMessage ==
    (job.status = "completed" /\ NoFinalizerRunning) => HasOutputMessage

====
